---- MODULE Spec2Model ----
(***************************************************************************)
(* Model of the Bikera node / consensus / gossip core (the Python P2P      *)
(* networking draft): the VRF proof generator, the ZeroMQ transport layer  *)
(* with its peer registry, the network node (round coordinator) and the    *)
(* decentralized network manager.                                          *)
(*                                                                         *)
(* Transport assumptions (ZeroMQ is a library, its code is not part of the *)
(* repository): poll() tells whether a message is waiting; the router      *)
(* socket yields the two frames the dispatcher unpacks, the identity of    *)
(* the sending dealer (set to the sender's node id) and the message bytes; *)
(* a direct message reaches the peer it is addressed to when the sender    *)
(* has connected its dealer socket to that peer; a subscriber that has     *)
(* connected k times to a publisher receives k copies of each broadcast.   *)
(* An endpoint that is not open receives nothing.                          *)
(***************************************************************************)
EXTENDS Integers, Sequences, FiniteSets, Bags, TLC

\* ------------------------------------------------------------------------
\* Program constants
\* ------------------------------------------------------------------------
HEARTBEAT_INTERVAL == 10
PEER_TIMEOUT == 30

\* ------------------------------------------------------------------------
\* Bounds of the model
\* ------------------------------------------------------------------------
MaxTime == 10          \* Spec: the clock stops advancing past this time
MaxClock == 40         \* SpecRegistry, SpecManager: the same, a longer run
TickStep == 10         \* seconds by which one Tick advances the clock
MaxConnects == 2       \* connect_to_peer calls over a run
MaxProposals == 2      \* proposals generated over a run

MaxStops == 2          \* stop calls on one node over a run
MaxBad == 1            \* bad messages sent to one node over a run
MaxSeen == 2           \* a capacity the seen set would have to respect
MaxSends == 2          \* application calls of a send method on one node

MaxInbox == MaxConnects  \* envelopes waiting on one inbound channel

NodeIds == {"node_a", "node_b"}
Seeds == {"distance_round_1_abc", "distance_round_1_abc:x"}
SignedIds == {"node_a", "x:node_a"}
TestNodeIds == {"remote_node_1", "remote_node_2", "remote_node_3"}
PrevHashes == {"abc"}
SeedRounds == {1, 11}
SeedHashes == {"a", "a_b", "1_a"}
UserIds == {"c", "b_c"}
WinnerData ==
    {[user_id |-> u, travel_distance |-> d] : u \in UserIds, d \in {1, 2}}
Nonces == {0, 1}
MinNodesValues == {1, 2}

\* the absent result (Python None)
None == [none |-> TRUE]

\* ------------------------------------------------------------------------
\* VRF (ECDSA over secp256k1 with SHA-256).  A private key is named by its
\* owner; a signature is the triple a verifier can see through: who signed,
\* what was signed and the signing nonce; sha256 is one-way and injective.
\* ------------------------------------------------------------------------
sha256(bytes) == <<"sha256", bytes>>

\* str.encode: the bytes of a string
encode(string) == [utf8 |-> string]

public_bytes(owner) == [format |-> "X962-uncompressed", point |-> owner]

sign(owner, message, k) == [signer |-> owner, msg |-> message, nonce |-> k]

vrf_message(seed, node_id) == encode(seed \o ":" \o node_id)

prove_nohash(owner, seed, node_id, k) ==
    LET signature == sign(owner, vrf_message(seed, node_id), k)
    IN  [signature |-> signature,
         hash_value |-> sha256(vrf_message(seed, node_id)),
         public_key |-> public_bytes(owner),
         node_id |-> node_id,
         seed |-> seed]

prove(owner, seed, node_id, k) ==
    LET message == vrf_message(seed, node_id)
        signature == sign(owner, message, k)
        hash_value == sha256(signature)
    IN  [signature |-> signature,
         hash_value |-> hash_value,
         public_key |-> public_bytes(owner),
         node_id |-> node_id,
         seed |-> seed]

\* from_encoded_point: the point, from either encoding, or a ValueError for
\* bytes that encode none
IsPoint(public_key) ==
    /\ DOMAIN public_key = {"format", "point"}
    /\ public_key.format \in {"X962-uncompressed", "X962-compressed"}

\* public_key.verify: returns, or raises InvalidSignature
signature_ok(public_key, signature, message) ==
    /\ DOMAIN signature = {"signer", "msg", "nonce"}
    /\ signature.signer = public_key.point
    /\ signature.msg = message

\* the body of the try block of verify: "true", "false" or "raise"
verify_try(proof) ==
    IF DOMAIN proof # {"signature", "hash_value", "public_key", "node_id", "seed"}
    THEN "raise"
    ELSE IF ~IsPoint(proof.public_key) THEN "raise"
    ELSE IF ~signature_ok(proof.public_key, proof.signature,
                          vrf_message(proof.seed, proof.node_id)) THEN "raise"
    ELSE IF sha256(proof.signature) = proof.hash_value THEN "true"
    ELSE "false"

verify(proof) ==
    LET outcome == verify_try(proof)
    IN  IF outcome = "raise" THEN "false" ELSE outcome

\* ------------------------------------------------------------------------
\* Envelopes and their wire forms
\* ------------------------------------------------------------------------
\* P2PMessage.__post_init__: the id is the digest of type, sender and
\* timestamp written one after the other (the 16-digit cut is not modelled)
message_id_of(type, sender_id, timestamp) ==
    sha256(encode(type \o sender_id \o ToString(timestamp)))

P2PMessage_id_with_recipient(type, sender_id, recipient_id, timestamp, data) ==
    [type |-> type, sender_id |-> sender_id, recipient_id |-> recipient_id,
     timestamp |-> timestamp, data |-> data,
     message_id |-> sha256(encode(type \o sender_id \o ToString(timestamp)
                                  \o recipient_id))]

P2PMessage(type, sender_id, recipient_id, timestamp, data) ==
    [type |-> type, sender_id |-> sender_id, recipient_id |-> recipient_id,
     timestamp |-> timestamp, data |-> data,
     message_id |-> message_id_of(type, sender_id, timestamp)]

json_dumps(value) == [json |-> value]
IsJson(bytes) == DOMAIN bytes = {"json"}
json_loads(bytes) == bytes.json

\* bytes.hex
hex(bytes) == <<"hex", bytes>>

\* bytes.fromhex
fromhex(string) == string[2]

\* broadcast_message: the frames published (topic, message bytes)
broadcast_frames(message) ==
    <<message.type,
      json_dumps([type |-> message.type, sender_id |-> message.sender_id,
                  timestamp |-> message.timestamp, data |-> message.data,
                  message_id |-> message.message_id])>>

\* send_direct_message: the message bytes sent to peer_id
direct_bytes(message) ==
    json_dumps([type |-> message.type, sender_id |-> message.sender_id,
                recipient_id |-> message.recipient_id,
                timestamp |-> message.timestamp, data |-> message.data,
                message_id |-> message.message_id])

\* ------------------------------------------------------------------------
\* State
\* ------------------------------------------------------------------------
VARIABLES
    now,                    \* time.time()
    MIN_NODES,              \* minimum active nodes (configuration)
    sockets,                \* per node: "none", "open" or "closed"
    tasks,                  \* per node: heartbeat and dispatcher tasks
    is_running,
    heartbeat_due,          \* when the heartbeat loop's sleep ends
    mp_pc,                  \* which channel the dispatcher polls next
    peers,                  \* per node: peer id -> last_seen
    active_connections,
    message_handlers,       \* per node: the types with a handler
    seen_messages,
    pending_vrf_proposals,
    sub_connected,          \* per node: peer id -> connections of sub_socket
    dealer_connected,       \* per node: peers its dealer_socket connected to
    sub_inbox,              \* per node: frames waiting on sub_socket
    router_inbox,           \* per node: frames waiting on router_socket
    broadcast_tasks,        \* per node: proposals whose broadcast task waits
    nodes,                  \* per manager: node id -> is_active
    proposals_made,         \* proposals generated so far
    \* history
    deliveries,             \* per node: bag of <<channel, sender, type, message id>>
    handler_calls,          \* per node: bag of <<channel, type, message id>>
    touched,                \* per node: peer id -> time last_seen was last set
    connect_time,           \* per node: peer id -> time of connect to a running peer
    connect_failed,         \* per node: the peers a connect_to_peer failed for
    proposed,               \* the proposals generated, with who was listening
    active_nodes_result,    \* per manager: what get_active_nodes last returned
    select_result,          \* per manager: what select_distance_generator last returned
                            \* (call flips at every call)
    \* the VRF on its own
    vrf_call,               \* the arguments of the last prove
    vrf_held,               \* the proof in hand (as returned, or altered since)
    vrf_altered,            \* what was altered in it since prove returned it
    vrf_result,             \* what verify answered for the proof in hand
    \* the consensus locks of a manager and the callers of its selections
    consensus_locks,        \* per manager: lock -> the caller holding it, or "free"
    callers,                \* per caller: where it is in its selection
    \* life cycle of the transport
    endpoints,              \* per node: each of the four sockets
    stop_calls,             \* per node: calls of stop that have returned
    start_failed,           \* per node: a bind failed in start
    \* history of bad envelopes
    bad_received,           \* per node: bad messages sent to it so far
    bad_taken,              \* per node: the dispatcher has taken a bad envelope
    handled_after_bad,      \* per node: a handler has run after that
    \* the records of a manager
    records,                \* per manager: node id -> is the record local,
                            \* and the state of the transport it owns
    \* what the caller of a send sees
    send_result             \* per node: how broadcast_message or
                            \* send_direct_message last returned, and the
                            \* number of calls so far

netvars == <<sockets, tasks, is_running, heartbeat_due, mp_pc, peers,
             active_connections, message_handlers, seen_messages,
             pending_vrf_proposals, sub_connected, dealer_connected,
             sub_inbox, router_inbox, broadcast_tasks>>
mgrvars == <<nodes, proposals_made, active_nodes_result, select_result>>
histvars == <<deliveries, handler_calls, touched, connect_time, connect_failed, proposed>>
vrfvars == <<vrf_call, vrf_held, vrf_altered, vrf_result>>
lockvars == <<consensus_locks, callers>>
lifevars == <<endpoints, stop_calls, start_failed>>
faultvars == <<bad_received, bad_taken, handled_after_bad>>
vars == <<now, MIN_NODES, send_result, records, vrfvars, lockvars, lifevars, faultvars, netvars,
          mgrvars, histvars>>

LockNames == {"distance_consensus_lock", "mining_consensus_lock"}
Callers == {"caller_1", "caller_2"}
EndpointNames == {"pub_socket", "sub_socket", "router_socket", "dealer_socket"}

HandlerTypes == {"vrf_distance_proposal", "vrf_mining_proposal",
                 "block_announcement", "handshake", "heartbeat"}

EmptyMap == [x \in {} |-> 0]

\* NetworkNode(node_id, is_local): its P2PNetworkLayer is built, not started
local_record == [is_local |-> TRUE, transport |-> "none"]
remote_record == [is_local |-> FALSE, transport |-> "none"]

Init ==
    /\ now = 0
    /\ MIN_NODES \in MinNodesValues
    /\ sockets = [n \in NodeIds |-> "none"]
    /\ tasks = [n \in NodeIds |-> "none"]
    /\ is_running = [n \in NodeIds |-> FALSE]
    /\ heartbeat_due = [n \in NodeIds |-> 0]
    /\ mp_pc = [n \in NodeIds |-> "sub"]
    /\ peers = [n \in NodeIds |-> EmptyMap]
    /\ active_connections = [n \in NodeIds |-> {}]
    /\ message_handlers = [n \in NodeIds |-> {}]
    /\ seen_messages = [n \in NodeIds |-> {}]
    /\ pending_vrf_proposals = [n \in NodeIds |-> <<>>]
    /\ sub_connected = [n \in NodeIds |-> [p \in NodeIds |-> 0]]
    /\ dealer_connected = [n \in NodeIds |-> {}]
    /\ sub_inbox = [n \in NodeIds |-> <<>>]
    /\ router_inbox = [n \in NodeIds |-> <<>>]
    /\ broadcast_tasks = [n \in NodeIds |-> <<>>]
    /\ nodes = [n \in NodeIds |-> [r \in {n} |-> TRUE]]
    /\ proposals_made = 0
    /\ deliveries = [n \in NodeIds |-> EmptyBag]
    /\ handler_calls = [n \in NodeIds |-> EmptyBag]
    /\ touched = [n \in NodeIds |-> EmptyMap]
    /\ connect_time = [n \in NodeIds |-> EmptyMap]
    /\ connect_failed = [n \in NodeIds |-> {}]
    /\ proposed = {}
    /\ consensus_locks = [n \in NodeIds |-> [l \in LockNames |-> "free"]]
    /\ callers = [c \in Callers |-> [pc |-> "idle", kind |-> "none",
                                      active_nodes |-> {}]]
    /\ endpoints = [n \in NodeIds |-> [e \in EndpointNames |-> "none"]]
    /\ stop_calls = [n \in NodeIds |-> 0]
    /\ start_failed = [n \in NodeIds |-> FALSE]
    /\ bad_received = [n \in NodeIds |-> 0]
    /\ bad_taken = [n \in NodeIds |-> FALSE]
    /\ handled_after_bad = [n \in NodeIds |-> FALSE]
    /\ records = [n \in NodeIds |-> [r \in {n} |-> local_record]]
    /\ send_result = [n \in NodeIds |->
                        [calls |-> 0, outcome |-> "none", failed |-> FALSE,
                         had_failure |-> FALSE]]
    /\ vrf_call = None
    /\ vrf_held = None
    /\ vrf_altered = "nothing"
    /\ vrf_result = "none"
    /\ active_nodes_result = [n \in NodeIds |-> [call |-> 0, ids |-> {}]]
    /\ select_result = [n \in NodeIds |->
                          [call |-> 0, round_number |-> 0, proposal |-> None]]

\* ------------------------------------------------------------------------
\* Peer registry
\* ------------------------------------------------------------------------
is_alive_inclusive(last_seen) == (now - last_seen) <= PEER_TIMEOUT

is_alive(last_seen) == (now - last_seen) < PEER_TIMEOUT

get_active_peers(n) == {p \in DOMAIN peers[n] : is_alive(peers[n][p])}

touch_nothing(registry, sender_id) == registry

\* last_seen = time.time() on the record of sender_id, when there is one
touch(registry, sender_id) ==
    IF sender_id \in DOMAIN registry
    THEN [registry EXCEPT ![sender_id] = now]
    ELSE registry

touch_history(n, sender_id) ==
    IF sender_id \in DOMAIN peers[n]
    THEN [p \in DOMAIN touched[n] \cup {sender_id} |->
             IF p = sender_id THEN now ELSE touched[n][p]]
    ELSE touched[n]

\* ------------------------------------------------------------------------
\* Channels
\* ------------------------------------------------------------------------
RECURSIVE Sum(_, _)
Sum(f, S) == IF S = {} THEN 0
             ELSE LET x == CHOOSE y \in S : TRUE IN f[x] + Sum(f, S \ {x})

\* connect_to_peer calls made so far
Connects == Sum([n \in NodeIds |-> Sum(sub_connected[n], NodeIds)], NodeIds)

Copies(k, frames) == [i \in 1..k |-> frames]

\* pub_socket.send_multipart: one copy per connection of each open subscriber
publish(inboxes, n, frames) ==
    [m \in NodeIds |->
        IF sockets[n] = "open" /\ sockets[m] = "open"
        THEN inboxes[m] \o Copies(sub_connected[m][n], frames)
        ELSE inboxes[m]]

CanPublish(n) ==
    \A m \in NodeIds :
        sockets[m] = "open" => Len(sub_inbox[m]) + sub_connected[m][n] <= MaxInbox

Reaches(n, peer_id) ==
    /\ sockets[n] = "open"
    /\ peer_id \in dealer_connected[n]
    /\ sockets[peer_id] = "open"

\* dealer_socket.send_multipart([peer_id, bytes]) as the router of peer_id sees it
send_direct(inboxes, reaches, n, peer_id, message) ==
    IF reaches
    THEN [inboxes EXCEPT ![peer_id] = Append(@, <<n, direct_bytes(message)>>)]
    ELSE inboxes

port_of(n) == <<"port", n>>

handshake_message(n, peer_id) ==
    P2PMessage("handshake", n, peer_id, now,
               [node_id |-> n, port |-> port_of(n), version |-> "1.0.0"])

heartbeat_message(n) ==
    P2PMessage("heartbeat", n, "broadcast", now, [status |-> "alive"])

handshake_response(n, sender_id) ==
    P2PMessage("handshake_response", n, sender_id, now,
               [node_id |-> n, status |-> "connected"])

\* ------------------------------------------------------------------------
\* Transport layer: start, stop, connect
\* ------------------------------------------------------------------------
\* the sockets _setup_sockets has created when it returns or raises
setup_sockets(failure) ==
    [e \in EndpointNames |->
        IF failure = "pub_bind"
        THEN IF e = "pub_socket" THEN "open" ELSE "none"
        ELSE IF failure = "router_bind"
        THEN IF e = "dealer_socket" THEN "none" ELSE "open"
        ELSE "open"]

close_sockets_but_dealer(eps) ==
    [e \in EndpointNames |->
        IF eps[e] = "none" \/ e = "dealer_socket" THEN eps[e] ELSE "closed"]

\* stop closes every socket that is not None
close_sockets(eps) ==
    [e \in EndpointNames |-> IF eps[e] = "none" THEN "none" ELSE "closed"]

start_failure_unhandled(eps) == eps

\* the except branch of start: await self.stop()
start_failure_handler(eps) == close_sockets(eps)

BindFailures == {"pub_bind", "router_bind"}

\* a start that has not come to its registrations when the loops first run
handlers_after_start_pending(registered) == registered

\* NetworkNode.start: the five register_message_handler calls, which follow
\* p2p_network.start() with no suspension between the creation of the two
\* tasks and the last registration
handlers_after_start(registered) == registered \cup HandlerTypes

\* a start that would also start every record the manager holds
records_after_start_all(n, transport) ==
    [r \in DOMAIN records[n] \cup TestNodeIds |->
        IF r \in TestNodeIds THEN [remote_record EXCEPT !.transport = transport]
        ELSE [records[n][r] EXCEPT !.transport = transport]]

\* DecentralizedNetwork.start: local_node.start(), then _setup_test_network
records_after_start(n, transport) ==
    [r \in DOMAIN records[n] \cup TestNodeIds |->
        IF r \in TestNodeIds THEN remote_record
        ELSE IF r = n THEN [records[n][r] EXCEPT !.transport = transport]
        ELSE records[n][r]]

\* DecentralizedNetwork.stop: for node in self.nodes.values():
\* if node.is_local: await node.stop()
records_after_stop(n) ==
    [r \in DOMAIN records[n] |->
        IF records[n][r].is_local
        THEN [records[n][r] EXCEPT !.transport = "stopped"]
        ELSE records[n][r]]

\* DecentralizedNetwork.start -> NetworkNode.start -> P2PNetworkLayer.start,
\* then the five handlers, then the test network's remote records
Start(n) ==
    /\ sockets[n] = "none"
    /\ sockets' = [sockets EXCEPT ![n] = "open"]
    /\ endpoints' = [endpoints EXCEPT ![n] = setup_sockets("none")]
    /\ tasks' = [tasks EXCEPT ![n] = "running"]
    /\ is_running' = [is_running EXCEPT ![n] = TRUE]
    /\ heartbeat_due' = [heartbeat_due EXCEPT ![n] = now]
    /\ mp_pc' = [mp_pc EXCEPT ![n] = "sub"]
    /\ message_handlers' = [message_handlers EXCEPT
                              ![n] = handlers_after_start(@)]
    /\ nodes' = [nodes EXCEPT ![n] =
                    [r \in DOMAIN @ \cup TestNodeIds |->
                        IF r \in TestNodeIds THEN TRUE ELSE @[r]]]
    /\ records' = [records EXCEPT ![n] = records_after_start(n, "running")]
    /\ UNCHANGED <<now, MIN_NODES, send_result, vrfvars, lockvars, stop_calls, start_failed,
                   faultvars, peers, active_connections, seen_messages,
                   pending_vrf_proposals, sub_connected, dealer_connected,
                   sub_inbox, router_inbox, broadcast_tasks, proposals_made,
                   active_nodes_result, select_result, histvars>>

\* DecentralizedNetwork.start when a bind in _setup_sockets raises: start
\* logs the error and calls stop; NetworkNode.start and
\* DecentralizedNetwork.start go on as after a start that worked
StartFails(n, failure) ==
    /\ sockets[n] = "none"
    /\ failure \in BindFailures
    /\ sockets' = [sockets EXCEPT ![n] = "closed"]
    /\ endpoints' = [endpoints EXCEPT
                        ![n] = start_failure_handler(setup_sockets(failure))]
    /\ is_running' = [is_running EXCEPT ![n] = FALSE]
    /\ start_failed' = [start_failed EXCEPT ![n] = TRUE]
    /\ message_handlers' = [message_handlers EXCEPT
                              ![n] = handlers_after_start(@)]
    /\ nodes' = [nodes EXCEPT ![n] =
                    [r \in DOMAIN @ \cup TestNodeIds |->
                        IF r \in TestNodeIds THEN TRUE ELSE @[r]]]
    /\ records' = [records EXCEPT ![n] = records_after_start(n, "stopped")]
    /\ UNCHANGED <<now, MIN_NODES, send_result, vrfvars, lockvars, stop_calls, faultvars,
                   tasks, heartbeat_due, mp_pc, peers, active_connections,
                   seen_messages, pending_vrf_proposals, sub_connected,
                   dealer_connected, sub_inbox, router_inbox, broadcast_tasks,
                   proposals_made, active_nodes_result, select_result,
                   histvars>>

\* DecentralizedNetwork.stop -> NetworkNode.stop -> P2PNetworkLayer.stop
Stop(n) ==
    /\ sockets[n] # "none"
    /\ stop_calls[n] < MaxStops
    /\ stop_calls' = [stop_calls EXCEPT ![n] = @ + 1]
    /\ is_running' = [is_running EXCEPT ![n] = FALSE]
    /\ tasks' = [tasks EXCEPT ![n] = IF @ = "running" THEN "cancelled" ELSE @]
    /\ sockets' = [sockets EXCEPT ![n] = "closed"]
    /\ endpoints' = [endpoints EXCEPT ![n] = close_sockets(@)]
    /\ sub_inbox' = [sub_inbox EXCEPT ![n] = <<>>]
    /\ router_inbox' = [router_inbox EXCEPT ![n] = <<>>]
    /\ records' = [records EXCEPT ![n] = records_after_stop(n)]
    /\ UNCHANGED <<now, MIN_NODES, send_result, vrfvars, lockvars, start_failed, faultvars,
                   heartbeat_due, mp_pc, peers, active_connections,
                   message_handlers, seen_messages, pending_vrf_proposals,
                   sub_connected, dealer_connected, broadcast_tasks, mgrvars,
                   histvars>>

\* connect_to_peer followed by send_handshake
ConnectToPeer(n, peer_id) ==
    /\ sockets[n] = "open"
    /\ Connects < MaxConnects
    /\ sockets[peer_id] = "open" => Len(router_inbox[peer_id]) < MaxInbox
    /\ sub_connected' = [sub_connected EXCEPT ![n][peer_id] = @ + 1]
    /\ dealer_connected' = [dealer_connected EXCEPT ![n] = @ \cup {peer_id}]
    /\ peers' = [peers EXCEPT ![n] =
                    [p \in DOMAIN @ \cup {peer_id} |->
                        IF p = peer_id THEN now ELSE @[p]]]
    /\ active_connections' = [active_connections EXCEPT ![n] = @ \cup {peer_id}]
    /\ router_inbox' = send_direct(router_inbox, sockets[peer_id] = "open",
                                   n, peer_id, handshake_message(n, peer_id))
    /\ touched' = [touched EXCEPT ![n] =
                    [p \in DOMAIN @ \cup {peer_id} |->
                        IF p = peer_id THEN now ELSE @[p]]]
    /\ connect_time' = [connect_time EXCEPT ![n] =
                    IF sockets[peer_id] = "open"
                    THEN [p \in DOMAIN @ \cup {peer_id} |->
                             IF p = peer_id THEN now ELSE @[p]]
                    ELSE @]
    /\ UNCHANGED <<connect_failed, now, MIN_NODES, send_result, records, vrfvars, lockvars, lifevars, faultvars, sockets, tasks, is_running, heartbeat_due,
                   mp_pc, message_handlers, seen_messages,
                   pending_vrf_proposals, sub_inbox, broadcast_tasks, mgrvars,
                   deliveries, handler_calls, proposed>>

\* connect_to_peer on a transport whose sockets are not there (before start)
\* or closed (after stop): sub_socket.connect raises, the except branch logs
\* the failure, and the lines after the connect are never reached
ConnectToPeerFails(n, peer_id) ==
    /\ sockets[n] # "open"
    /\ peer_id \notin connect_failed[n]
    /\ connect_failed' = [connect_failed EXCEPT ![n] = @ \cup {peer_id}]
    /\ UNCHANGED <<now, MIN_NODES, send_result, records, vrfvars, lockvars,
                   lifevars, faultvars, netvars, mgrvars, deliveries,
                   handler_calls, touched, connect_time, proposed>>

Looping_until_closed(n) == tasks[n] # "none"

\* while self.is_running, in a task that has not been cancelled
Looping(n) == is_running[n] /\ tasks[n] = "running"

\* ------------------------------------------------------------------------
\* Heartbeat loop: one iteration (broadcast, sweep, sleep)
\* ------------------------------------------------------------------------
is_dead_at_timeout(last_seen) == (now - last_seen) >= PEER_TIMEOUT

is_dead_after_grace(last_seen) ==
    (now - last_seen) > PEER_TIMEOUT + HEARTBEAT_INTERVAL

is_dead(last_seen) == (now - last_seen) > PEER_TIMEOUT

dead_peers(n) == {p \in DOMAIN peers[n] : is_dead(peers[n][p])}

\* a sweep that forgets the connection set
connections_after_sweep_kept(n) == active_connections[n]

\* self.active_connections.discard(peer_id), for each dead peer
connections_after_sweep(n) == active_connections[n] \ dead_peers(n)

HeartbeatLoop(n) ==
    /\ Looping(n)
    /\ now >= heartbeat_due[n]
    /\ CanPublish(n)
    /\ sub_inbox' = publish(sub_inbox, n, broadcast_frames(heartbeat_message(n)))
    /\ peers' = [peers EXCEPT ![n] =
                    [p \in DOMAIN @ \ dead_peers(n) |-> @[p]]]
    /\ active_connections' = [active_connections EXCEPT
                                 ![n] = connections_after_sweep(n)]
    /\ heartbeat_due' = [heartbeat_due EXCEPT ![n] = now + HEARTBEAT_INTERVAL]
    /\ UNCHANGED <<now, MIN_NODES, send_result, records, vrfvars, lockvars, lifevars, faultvars, sockets, tasks, is_running, mp_pc,
                   message_handlers, seen_messages, pending_vrf_proposals,
                   sub_connected, dealer_connected, router_inbox,
                   broadcast_tasks, mgrvars, histvars>>

\* ------------------------------------------------------------------------
\* Inbound dispatcher (_message_processor and the two handlers it calls)
\* ------------------------------------------------------------------------
AddToBag(bag, x) == bag (+) SetToBag({x})

\* the proof an envelope carries, as VRFProof.verify takes it
wire_proof(proposal) ==
    [signature |-> fromhex(proposal.vrf_proof.signature),
     hash_value |-> fromhex(proposal.vrf_proof.hash_value),
     public_key |-> fromhex(proposal.vrf_proof.public_key),
     node_id |-> proposal.node_id,
     seed |-> proposal.vrf_proof.seed]

pending_after_verified(n, invoked, message_data) ==
    IF /\ invoked
       /\ message_data.type \in {"vrf_distance_proposal", "vrf_mining_proposal"}
       /\ verify(wire_proof(message_data.data.proposal)) = "true"
    THEN [pending_vrf_proposals EXCEPT
             ![n] = Append(@, <<IF message_data.type = "vrf_distance_proposal"
                                THEN "distance" ELSE "mining",
                                message_data.data>>)]
    ELSE pending_vrf_proposals

\* the handlers NetworkNode registers: what they append to the buffer
pending_after(n, invoked, message_data) ==
    IF invoked /\ message_data.type = "vrf_distance_proposal"
    THEN [pending_vrf_proposals EXCEPT
             ![n] = Append(@, <<"distance", message_data.data>>)]
    ELSE IF invoked /\ message_data.type = "vrf_mining_proposal"
    THEN [pending_vrf_proposals EXCEPT
             ![n] = Append(@, <<"mining", message_data.data>>)]
    ELSE pending_vrf_proposals

replies_to_response(n, invoked, message_data) ==
    \/ invoked /\ message_data.type = "handshake"
    \/ message_data.type = "handshake_response"

\* _handle_handshake: the reply sent with send_direct_message
replies(n, invoked, message_data) ==
    invoked /\ message_data.type = "handshake"

router_after(inboxes, n, invoked, message_data) ==
    IF replies(n, invoked, message_data)
    THEN send_direct(inboxes, Reaches(n, message_data.sender_id), n,
                     message_data.sender_id,
                     handshake_response(n, message_data.sender_id))
    ELSE inboxes

ReplyHasRoom(inboxes, n, invoked, message_data) ==
    (replies(n, invoked, message_data) /\ Reaches(n, message_data.sender_id))
        => Len(inboxes[message_data.sender_id]) < MaxInbox

\* the checks of _handle_broadcast_message before it records the message
accepts_broadcast_without_dedup(n, message_data) ==
    message_data.sender_id # n

accepts_broadcast_without_self_check(n, message_data) ==
    message_data.message_id \notin seen_messages[n]

accepts_broadcast(n, message_data) ==
    /\ message_data.sender_id # n
    /\ message_data.message_id \notin seen_messages[n]

\* the checks of _handle_direct_message: there are none
accepts_direct(n, sender_id, message_data) == TRUE

Dispatching(n) == Looping(n)

has(message_data, keys) == keys \subseteq DOMAIN message_data

\* the keys the dispatcher and the delivery log read from an envelope
EnvelopeKeys == {"sender_id", "type", "message_id"}

\* the registered handler raises KeyError on the keys it reads
handler_raises(message_data) ==
    \/ /\ message_data.type \in {"vrf_distance_proposal",
                                  "vrf_mining_proposal", "block_announcement"}
       /\ ~has(message_data, {"data", "sender_id"})
    \/ /\ message_data.type = "handshake"
       /\ ~has(message_data, {"sender_id"})

after_error_uncaught(task) == "crashed"

\* except Exception in the handlers and in the loop body: logged, and the
\* task goes on
after_error(task) == task

\* a receive on sub_socket without the poll: it waits for a broadcast
PollSubBlocking(n) == FALSE /\ UNCHANGED vars

\* sub_socket.poll found nothing
PollSubEmpty(n) ==
    /\ Dispatching(n) /\ mp_pc[n] = "sub"
    /\ sub_inbox[n] = <<>>
    /\ router_inbox[n] # <<>>
    /\ mp_pc' = [mp_pc EXCEPT ![n] = "router"]
    /\ UNCHANGED <<now, MIN_NODES, send_result, records, vrfvars, lockvars, lifevars, faultvars, sockets, tasks, is_running, heartbeat_due,
                   peers, active_connections, message_handlers, seen_messages,
                   pending_vrf_proposals, sub_connected, dealer_connected,
                   sub_inbox, router_inbox, broadcast_tasks, mgrvars, histvars>>

\* sub_socket.recv_multipart and _handle_broadcast_message
HandleBroadcastMessage(n) ==
    /\ Dispatching(n) /\ mp_pc[n] = "sub"
    /\ sub_inbox[n] # <<>>
    /\ LET frames == Head(sub_inbox[n])
           message_bytes == frames[2]
           decoded == Len(frames) = 2 /\ IsJson(message_bytes)
           message_data == json_loads(message_bytes)
           own == /\ decoded /\ has(message_data, {"sender_id"})
                  /\ message_data.sender_id = n
           accepted == /\ decoded
                       /\ has(message_data, {"sender_id", "message_id"})
                       /\ accepts_broadcast(n, message_data)
           invoked == /\ accepted /\ has(message_data, {"type"})
                      /\ message_data.type \in message_handlers[n]
           completed == invoked /\ ~handler_raises(message_data)
           failed == \/ ~decoded
                     \/ ~has(message_data, {"sender_id"})
                     \/ ~own /\ ~has(message_data, {"message_id"})
                     \/ accepted /\ ~has(message_data, {"type"})
                     \/ invoked /\ handler_raises(message_data)
       IN  /\ ReplyHasRoom(router_inbox, n, completed, message_data)
           /\ sub_inbox' = [sub_inbox EXCEPT ![n] = Tail(@)]
           /\ seen_messages' =
                 IF accepted
                 THEN [seen_messages EXCEPT ![n] = @ \cup {message_data.message_id}]
                 ELSE seen_messages
           /\ peers' = IF accepted
                       THEN [peers EXCEPT ![n] = touch(@, message_data.sender_id)]
                       ELSE peers
           /\ touched' = IF accepted
                         THEN [touched EXCEPT
                                  ![n] = touch_history(n, message_data.sender_id)]
                         ELSE touched
           /\ pending_vrf_proposals' = pending_after(n, completed, message_data)
           /\ router_inbox' = router_after(router_inbox, n, completed, message_data)
           /\ deliveries' =
                 IF decoded /\ has(message_data, EnvelopeKeys)
                 THEN [deliveries EXCEPT ![n] =
                          AddToBag(@, <<"broadcast", message_data.sender_id,
                                        message_data.type,
                                        message_data.message_id>>)]
                 ELSE deliveries
           /\ handler_calls' =
                 IF invoked
                 THEN [handler_calls EXCEPT ![n] =
                          AddToBag(@, <<"broadcast", message_data.type,
                                        message_data.message_id>>)]
                 ELSE handler_calls
           /\ tasks' = IF failed THEN [tasks EXCEPT ![n] = after_error(@)]
                       ELSE tasks
           /\ bad_taken' = [bad_taken EXCEPT ![n] = @ \/ failed]
           /\ handled_after_bad' =
                 [handled_after_bad EXCEPT ![n] = @ \/ (bad_taken[n] /\ completed)]
    /\ mp_pc' = [mp_pc EXCEPT ![n] = "router"]
    /\ UNCHANGED <<now, MIN_NODES, send_result, records, vrfvars, lockvars, lifevars, bad_received,
                   sockets, is_running, heartbeat_due, active_connections,
                   message_handlers, sub_connected, dealer_connected,
                   broadcast_tasks, mgrvars, connect_time, connect_failed, proposed>>

\* router_socket.poll found nothing
PollRouterEmpty(n) ==
    /\ Dispatching(n) /\ mp_pc[n] = "router"
    /\ router_inbox[n] = <<>>
    /\ sub_inbox[n] # <<>>
    /\ mp_pc' = [mp_pc EXCEPT ![n] = "sub"]
    /\ UNCHANGED <<now, MIN_NODES, send_result, records, vrfvars, lockvars, lifevars, faultvars, sockets, tasks, is_running, heartbeat_due,
                   peers, active_connections, message_handlers, seen_messages,
                   pending_vrf_proposals, sub_connected, dealer_connected,
                   sub_inbox, router_inbox, broadcast_tasks, mgrvars, histvars>>

\* router_socket.recv_multipart and _handle_direct_message
HandleDirectMessage(n) ==
    /\ Dispatching(n) /\ mp_pc[n] = "router"
    /\ router_inbox[n] # <<>>
    /\ LET frames == Head(router_inbox[n])
           sender_id == frames[1]
           message_bytes == frames[2]
           decoded == Len(frames) = 2 /\ IsJson(message_bytes)
           message_data == json_loads(message_bytes)
           accepted == decoded /\ accepts_direct(n, sender_id, message_data)
           invoked == /\ accepted /\ has(message_data, {"type"})
                      /\ message_data.type \in message_handlers[n]
           completed == invoked /\ ~handler_raises(message_data)
           failed == \/ ~decoded
                     \/ accepted /\ ~has(message_data, {"type"})
                     \/ invoked /\ handler_raises(message_data)
           taken == [router_inbox EXCEPT ![n] = Tail(@)]
       IN  /\ ReplyHasRoom(taken, n, completed, message_data)
           /\ router_inbox' = router_after(taken, n, completed, message_data)
           /\ peers' = IF accepted
                       THEN [peers EXCEPT ![n] = touch(@, sender_id)]
                       ELSE peers
           /\ touched' = IF accepted
                         THEN [touched EXCEPT ![n] = touch_history(n, sender_id)]
                         ELSE touched
           /\ pending_vrf_proposals' = pending_after(n, completed, message_data)
           /\ deliveries' =
                 IF decoded /\ has(message_data, EnvelopeKeys)
                 THEN [deliveries EXCEPT ![n] =
                          AddToBag(@, <<"direct", message_data.sender_id,
                                        message_data.type,
                                        message_data.message_id>>)]
                 ELSE deliveries
           /\ handler_calls' =
                 IF invoked
                 THEN [handler_calls EXCEPT ![n] =
                          AddToBag(@, <<"direct", message_data.type,
                                        message_data.message_id>>)]
                 ELSE handler_calls
           /\ tasks' = IF failed THEN [tasks EXCEPT ![n] = after_error(@)]
                       ELSE tasks
           /\ bad_taken' = [bad_taken EXCEPT ![n] = @ \/ failed]
           /\ handled_after_bad' =
                 [handled_after_bad EXCEPT ![n] = @ \/ (bad_taken[n] /\ completed)]
    /\ mp_pc' = [mp_pc EXCEPT ![n] = "sub"]
    /\ UNCHANGED <<now, MIN_NODES, send_result, records, vrfvars, lockvars, lifevars, bad_received,
                   sockets, is_running, heartbeat_due, active_connections,
                   message_handlers, seen_messages, sub_connected,
                   dealer_connected, sub_inbox, broadcast_tasks, mgrvars,
                   connect_time, connect_failed, proposed>>

\* ------------------------------------------------------------------------
\* Network node: proposals
\* ------------------------------------------------------------------------
distance_seed(round_number, last_block_hash) ==
    "distance_round_" \o ToString(round_number) \o "_" \o last_block_hash

\* hash_value[:4].  SHA-256 is a fixed map from what is hashed to bytes; the
\* model's map sends a digest to one of a few four-byte prefixes, among
\* them those at the ends of the range of the target distance
HashPrefixes ==
    << <<1, 2, 3, 4>>, <<0, 0, 38, 171>>, <<0, 0, 38, 172>>,
       <<127, 255, 255, 255>>, <<0, 0, 0, 0>> >>

first_bytes(hash_value) ==
    LET signature == hash_value[2]
    IN  HashPrefixes[((Len(signature.msg.utf8) + signature.nonce
                          + Len(signature.signer)) % Len(HashPrefixes)) + 1]

\* int.from_bytes(bytes, byteorder='big') of four bytes
from_bytes(bytes) ==
    ((bytes[1] * 256 + bytes[2]) * 256 + bytes[3]) * 256 + bytes[4]

hash_int(hash_value) == from_bytes(first_bytes(hash_value))

target_distance_modulo_10000(hash_value) ==
    100 + (hash_int(hash_value) % 10000)

\* target distance in thousandths of a kilometre: 0.1 + (hash_int % 9900) / 1000
target_distance(hash_value) == 100 + (hash_int(hash_value) % 9900)

distance_proposal(n, round_number, last_block_hash, k) ==
    LET vrf_proof == prove(n, distance_seed(round_number, last_block_hash), n, k)
    IN  [node_id |-> n,
         vrf_proof |-> vrf_proof,
         target_distance |-> target_distance(vrf_proof.hash_value),
         round_number |-> round_number,
         timestamp |-> now]

\* _broadcast_distance_proposal: the envelope built when the task runs
distance_proposal_message(n, proposal) ==
    P2PMessage("vrf_distance_proposal", n, "broadcast", now,
        [proposal |->
            [node_id |-> proposal.node_id,
             target_distance |-> proposal.target_distance,
             round_number |-> proposal.round_number,
             timestamp |-> proposal.timestamp,
             vrf_proof |->
                [signature |-> hex(proposal.vrf_proof.signature),
                 hash_value |-> hex(proposal.vrf_proof.hash_value),
                 public_key |-> hex(proposal.vrf_proof.public_key),
                 seed |-> proposal.vrf_proof.seed]]])

\* history: the running nodes subscribed to n when it generates a proposal
listeners(n) ==
    {m \in NodeIds \ {n} : is_running[m] /\ tasks[m] = "running"
                              /\ sub_connected[m][n] > 0}

proposed_after(n, round_number, last_block_hash) ==
    proposed \cup {[node_id |-> n, round_number |-> round_number,
                    last_block_hash |-> last_block_hash, at |-> now,
                    listeners |-> listeners(n), kind |-> "distance",
                    seed |-> distance_seed(round_number, last_block_hash)]}

\* generate_distance_proposal as it would be with the broadcast awaited
GenerateDistanceProposal_awaiting(n, round_number, last_block_hash, k) ==
    /\ proposals_made < MaxProposals
    /\ CanPublish(n)
    /\ proposals_made' = proposals_made + 1
    /\ sub_inbox' = publish(sub_inbox, n,
                        broadcast_frames(
                            distance_proposal_message(n,
                                distance_proposal(n, round_number,
                                                  last_block_hash, k))))
    /\ proposed' = proposed_after(n, round_number, last_block_hash)
    /\ UNCHANGED <<now, MIN_NODES, send_result, records, vrfvars, lockvars, lifevars, faultvars, sockets, tasks, is_running,
                   heartbeat_due, mp_pc, peers, active_connections,
                   message_handlers, seen_messages, pending_vrf_proposals,
                   sub_connected, dealer_connected, broadcast_tasks, router_inbox,
                   nodes, active_nodes_result, select_result, deliveries,
                   handler_calls, touched, connect_time, connect_failed>>

\* generate_distance_proposal: returns the proposal, leaves the broadcast to a task
GenerateDistanceProposal(n, round_number, last_block_hash, k) ==
    /\ proposals_made < MaxProposals
    /\ proposals_made' = proposals_made + 1
    /\ broadcast_tasks' =
          [broadcast_tasks EXCEPT
              ![n] = Append(@, distance_proposal(n, round_number,
                                                 last_block_hash, k))]
    /\ proposed' = proposed_after(n, round_number, last_block_hash)
    /\ UNCHANGED <<now, MIN_NODES, send_result, records, vrfvars, lockvars, lifevars, faultvars, sockets, tasks, is_running,
                   heartbeat_due, mp_pc, peers, active_connections,
                   message_handlers, seen_messages, pending_vrf_proposals,
                   sub_connected, dealer_connected, sub_inbox, router_inbox,
                   nodes, active_nodes_result, select_result, deliveries,
                   handler_calls, touched, connect_time, connect_failed>>

\* the task created by generate_distance_proposal runs
BroadcastDistanceProposal(n) ==
    /\ broadcast_tasks[n] # <<>>
    /\ "target_distance" \in DOMAIN Head(broadcast_tasks[n])
    /\ CanPublish(n)
    /\ broadcast_tasks' = [broadcast_tasks EXCEPT ![n] = Tail(@)]
    /\ sub_inbox' = publish(sub_inbox, n,
                        broadcast_frames(
                            distance_proposal_message(n, Head(broadcast_tasks[n]))))
    /\ UNCHANGED <<now, MIN_NODES, send_result, records, vrfvars, lockvars, lifevars, faultvars, sockets, tasks, is_running, heartbeat_due,
                   mp_pc, peers, active_connections, message_handlers,
                   seen_messages, pending_vrf_proposals, sub_connected,
                   dealer_connected, router_inbox, mgrvars, histvars>>

mining_seed(round_number, last_block_hash, user_id) ==
    "mining_round_" \o ToString(round_number) \o "_" \o last_block_hash
        \o "_" \o user_id

mining_proposal(n, round_number, winner_data, last_block_hash, k) ==
    [node_id |-> n,
     vrf_proof |-> prove(n, mining_seed(round_number, last_block_hash,
                                        winner_data.user_id), n, k),
     block_data |-> winner_data,
     round_number |-> round_number,
     timestamp |-> now]

\* _broadcast_mining_proposal: the envelope built when the task runs
mining_proposal_message(n, proposal) ==
    P2PMessage("vrf_mining_proposal", n, "broadcast", now,
        [proposal |->
            [node_id |-> proposal.node_id,
             round_number |-> proposal.round_number,
             timestamp |-> proposal.timestamp,
             block_data |-> proposal.block_data,
             vrf_proof |->
                [signature |-> hex(proposal.vrf_proof.signature),
                 hash_value |-> hex(proposal.vrf_proof.hash_value),
                 public_key |-> hex(proposal.vrf_proof.public_key),
                 seed |-> proposal.vrf_proof.seed]]])

\* generate_mining_proposal: returns the proposal, leaves the broadcast to a task
GenerateMiningProposal(n, round_number, winner_data, last_block_hash, k) ==
    /\ proposals_made < MaxProposals
    /\ proposals_made' = proposals_made + 1
    /\ broadcast_tasks' =
          [broadcast_tasks EXCEPT
              ![n] = Append(@, mining_proposal(n, round_number, winner_data,
                                               last_block_hash, k))]
    /\ proposed' =
          proposed \cup {[node_id |-> n, round_number |-> round_number,
                          last_block_hash |-> last_block_hash, at |-> now,
                          listeners |-> listeners(n), kind |-> "mining",
                          user_id |-> winner_data.user_id,
                          seed |-> mining_seed(round_number, last_block_hash,
                                               winner_data.user_id)]}
    /\ UNCHANGED <<now, MIN_NODES, send_result, records, vrfvars, lockvars, lifevars, faultvars,
                   sockets, tasks, is_running, heartbeat_due, mp_pc, peers,
                   active_connections, message_handlers, seen_messages,
                   pending_vrf_proposals, sub_connected, dealer_connected,
                   sub_inbox, router_inbox, nodes, active_nodes_result,
                   select_result, deliveries, handler_calls, touched,
                   connect_time, connect_failed>>

\* the task created by generate_mining_proposal runs
BroadcastMiningProposal(n) ==
    /\ broadcast_tasks[n] # <<>>
    /\ "block_data" \in DOMAIN Head(broadcast_tasks[n])
    /\ CanPublish(n)
    /\ broadcast_tasks' = [broadcast_tasks EXCEPT ![n] = Tail(@)]
    /\ sub_inbox' = publish(sub_inbox, n,
                        broadcast_frames(
                            mining_proposal_message(n, Head(broadcast_tasks[n]))))
    /\ UNCHANGED <<now, MIN_NODES, send_result, records, vrfvars, lockvars, lifevars, faultvars,
                   sockets, tasks, is_running, heartbeat_due, mp_pc, peers,
                   active_connections, message_handlers, seen_messages,
                   pending_vrf_proposals, sub_connected, dealer_connected,
                   router_inbox, mgrvars, histvars>>

\* ------------------------------------------------------------------------
\* Network manager
\* ------------------------------------------------------------------------
add_node(n, node_id) ==
    IF node_id \in DOMAIN nodes[n]
    THEN nodes[n]
    ELSE [r \in DOMAIN nodes[n] \cup {node_id} |->
             IF r = node_id THEN TRUE ELSE nodes[n][r]]

AddNode(n, node_id) ==
    /\ node_id \notin DOMAIN nodes[n]
    /\ nodes' = [nodes EXCEPT ![n] = add_node(n, node_id)]
    /\ records' = [records EXCEPT ![n] =
                      [r \in DOMAIN @ \cup {node_id} |->
                          IF r = node_id THEN remote_record ELSE @[r]]]
    /\ UNCHANGED <<now, MIN_NODES, send_result, vrfvars, lockvars, lifevars, faultvars, netvars, proposals_made,
                   active_nodes_result, select_result, histvars>>

RemoveNode(n, node_id) ==
    /\ node_id \in DOMAIN nodes[n] /\ node_id # n
    /\ nodes' = [nodes EXCEPT ![n] = [r \in DOMAIN @ \ {node_id} |-> @[r]]]
    /\ records' = [records EXCEPT ![n] = [r \in DOMAIN @ \ {node_id} |-> @[r]]]
    /\ UNCHANGED <<now, MIN_NODES, send_result, vrfvars, lockvars, lifevars, faultvars, netvars, proposals_made,
                   active_nodes_result, select_result, histvars>>

\* get_active_nodes: the ids of the records it returns
get_active_nodes_by_connection(n) ==
    {r \in DOMAIN nodes[n] : r = n \/ r \in active_connections[n]}

get_active_nodes(n) ==
    {r \in DOMAIN nodes[n] : r = n \/ r \in get_active_peers(n)}

\* get_active_nodes also sets is_active on every record
flags_after(n) == [r \in DOMAIN nodes[n] |-> r \in get_active_nodes(n)]

GetActiveNodes(n) ==
    /\ nodes' = [nodes EXCEPT ![n] = flags_after(n)]
    /\ active_nodes_result' =
          [active_nodes_result EXCEPT
              ![n] = [call |-> 1 - @.call, ids |-> get_active_nodes(n)]]
    /\ UNCHANGED <<now, MIN_NODES, send_result, records, vrfvars, lockvars, lifevars, faultvars, netvars, proposals_made, select_result,
                   histvars>>

\* select_distance_generator: the test that ends the round early
insufficient_or_equal(active_nodes) == Cardinality(active_nodes) <= MIN_NODES

insufficient(active_nodes) == Cardinality(active_nodes) < MIN_NODES

\* select_distance_generator past the test: the coordinator generates its
\* own proposal and returns it
selected_proposal(n, round_number, last_block_hash, k) ==
    distance_proposal(n, round_number, last_block_hash, k)

\* select_distance_generator under distance_consensus_lock
SelectDistanceGenerator(n, round_number, last_block_hash, k) ==
    /\ nodes' = [nodes EXCEPT ![n] = flags_after(n)]
    /\ IF insufficient(get_active_nodes(n))
       THEN /\ select_result' =
                  [select_result EXCEPT
                      ![n] = [call |-> 1 - @.call,
                              round_number |-> round_number,
                              proposal |-> None]]
            /\ UNCHANGED <<broadcast_tasks, proposals_made, proposed>>
       ELSE /\ proposals_made < MaxProposals
            /\ proposals_made' = proposals_made + 1
            /\ select_result' =
                  [select_result EXCEPT
                      ![n] = [call |-> 1 - @.call,
                              round_number |-> round_number,
                              proposal |-> selected_proposal(
                                  n, round_number, last_block_hash, k)]]
            /\ broadcast_tasks' =
                  [broadcast_tasks EXCEPT
                      ![n] = Append(@, selected_proposal(
                                  n, round_number, last_block_hash, k))]
            /\ proposed' = proposed_after(n, round_number, last_block_hash)
    /\ UNCHANGED <<now, MIN_NODES, send_result, records, vrfvars, lockvars, lifevars, faultvars, sockets, tasks, is_running,
                   heartbeat_due, mp_pc, peers, active_connections,
                   message_handlers, seen_messages, pending_vrf_proposals,
                   sub_connected, dealer_connected, sub_inbox, router_inbox,
                   active_nodes_result, deliveries, handler_calls, touched,
                   connect_time, connect_failed>>

\* ------------------------------------------------------------------------
\* Time
\* ------------------------------------------------------------------------
\* The clock advances when every running loop sleeps: no heartbeat is due,
\* no envelope waits at a running dispatcher and no broadcast task waits.
Quiet ==
    /\ \A n \in NodeIds :
          Dispatching(n) =>
              /\ heartbeat_due[n] > now
              /\ sub_inbox[n] = <<>>
              /\ router_inbox[n] = <<>>
    /\ \A n \in NodeIds : broadcast_tasks[n] = <<>>

Tick(limit) ==
    /\ Quiet
    /\ now + TickStep <= limit
    /\ now' = now + TickStep
    /\ UNCHANGED <<MIN_NODES, send_result, records, vrfvars, lockvars, lifevars, faultvars, netvars, mgrvars, histvars>>

\* ------------------------------------------------------------------------
\* Spec: two started nodes exchanging handshakes, heartbeats and the
\* distance proposals of node_a, over one heartbeat interval.  A heartbeat
\* that is due is sent before the application makes its next call.
\* ------------------------------------------------------------------------
NoHeartbeatDue ==
    \A n \in NodeIds : Dispatching(n) => heartbeat_due[n] > now

Next ==
    \/ \E n \in NodeIds : NoHeartbeatDue /\ Start(n)
    \/ \E n, p \in NodeIds :
          NoHeartbeatDue /\ sockets[p] = "open" /\ ConnectToPeer(n, p)
    \/ \E n \in NodeIds : HeartbeatLoop(n)
    \/ \E n \in NodeIds : PollSubEmpty(n)
    \/ \E n \in NodeIds : HandleBroadcastMessage(n)
    \/ \E n \in NodeIds : PollRouterEmpty(n)
    \/ \E n \in NodeIds : HandleDirectMessage(n)
    \/ \E h \in PrevHashes :
          /\ NoHeartbeatDue
          /\ GenerateDistanceProposal("node_a", proposals_made + 1, h, 0)
    \/ \E n \in NodeIds : BroadcastDistanceProposal(n)
    \/ Tick(MaxTime)

\* MIN_NODES as the source sets it
InitSpec == Init /\ MIN_NODES = 1

Spec == InitSpec /\ [][Next]_vars

\* ------------------------------------------------------------------------
\* Properties checked under Spec
\* ------------------------------------------------------------------------
\* the envelope the dispatcher of n takes next from a channel
NextBroadcast(n) == json_loads(Head(sub_inbox[n])[2])
NextDirect(n) == json_loads(Head(router_inbox[n])[2])

Delivered(n) == BagToSet(deliveries[n])

\* C1: an envelope from another node delivered any number of times on the
\* broadcast channel with the same message id has had the handler of its
\* type invoked exactly once.
C1_BroadcastDedup ==
    \A n \in NodeIds : \A e \in Delivered(n) :
        (e[1] = "broadcast" /\ e[2] # n /\ e[3] \in message_handlers[n])
            => CopiesIn(<<"broadcast", e[3], e[4]>>, handler_calls[n]) = 1

\* C1 witness: an envelope from another node was delivered twice on the
\* broadcast channel and its handler ran.
C1_Witness ==
    \E n \in NodeIds : \E e \in Delivered(n) :
        /\ e[1] = "broadcast" /\ e[2] # n
        /\ CopiesIn(e, deliveries[n]) >= 2
        /\ CopiesIn(<<"broadcast", e[3], e[4]>>, handler_calls[n]) >= 1

\* an envelope the uniform dispatch algorithm discards: sent by the node
\* itself, or with an id the node has seen or has been delivered before
Discardable(n, message_data) ==
    \/ message_data.sender_id = n
    \/ message_data.message_id \in seen_messages[n]
    \/ \E e \in Delivered(n) : e[4] = message_data.message_id

\* C2: an envelope arriving on the direct channel whose id the node has
\* already seen, or whose sender is the node itself, is discarded: no handler
\* is invoked for it.
C2_DirectDiscards ==
    [][\A n \in NodeIds :
          (HandleDirectMessage(n) /\ Discardable(n, NextDirect(n)))
              => handler_calls'[n] = handler_calls[n]]_vars

\* C3: in response to a broadcast envelope whose sender is the node itself,
\* the node invokes no handler, adds nothing to its seen set and appends
\* nothing to its pending-proposal buffer.
C3_SelfSuppression ==
    [][\A n \in NodeIds :
          (HandleBroadcastMessage(n) /\ NextBroadcast(n).sender_id = n)
              => /\ handler_calls'[n] = handler_calls[n]
                 /\ seen_messages'[n] = seen_messages[n]
                 /\ pending_vrf_proposals'[n] = pending_vrf_proposals[n]]_vars

\* C3 witness: a node has taken its own distance proposal from the broadcast
\* channel.
C3_Witness ==
    \E n \in NodeIds :
        /\ \E e \in Delivered(n) :
              e[1] = "broadcast" /\ e[2] = n /\ e[3] = "vrf_distance_proposal"
        /\ pending_vrf_proposals[n] = <<>>

\* C7: once B has connected to a started A, from one heartbeat interval
\* later on (and while the registration is fresh) A's active peers contain B
\* and B's contain A.
C7_TwoNodeHandshake ==
    \A a, b \in NodeIds :
        (/\ a # b
         /\ a \in DOMAIN connect_time[b]
         /\ Dispatching(a) /\ Dispatching(b)
         /\ now >= connect_time[b][a] + HEARTBEAT_INTERVAL
         /\ now < connect_time[b][a] + PEER_TIMEOUT)
            => /\ b \in get_active_peers(a)
               /\ a \in get_active_peers(b)

\* the proof a receiver rebuilds from the payload of a distance proposal
ProofOf(payload) == wire_proof(payload.proposal)

Buffered(b, g) ==
    \E i \in 1..Len(pending_vrf_proposals[b]) :
        LET entry == pending_vrf_proposals[b][i]
        IN  /\ entry[1] = "distance"
            /\ entry[2].proposal.node_id = g.node_id
            /\ entry[2].proposal.round_number = g.round_number
            /\ ProofOf(entry[2]).seed =
                  distance_seed(g.round_number, g.last_block_hash)
            /\ verify(ProofOf(entry[2])) = "true"

NothingInFlight ==
    \A n \in NodeIds : broadcast_tasks[n] = <<>> /\ sub_inbox[n] = <<>>

\* C8: once nothing is in flight any more, every node that was running and
\* connected to A when A generated a distance proposal for round r holds a
\* ('distance', payload) entry of round r whose rebuilt proof verifies.
C8_ProposalRoundTrip ==
    NothingInFlight =>
        \A g \in proposed : \A b \in g.listeners :
            Dispatching(b) => Buffered(b, g)

\* the envelopes on the wire: what waits on the sub and router sockets
OnBroadcastWire ==
    UNION {{json_loads(sub_inbox[n][i][2]) : i \in 1..Len(sub_inbox[n])} :
              n \in NodeIds}

OnDirectWire ==
    UNION {{json_loads(router_inbox[n][i][2]) : i \in 1..Len(router_inbox[n])} :
              n \in NodeIds}

\* C19: the message id of every envelope on the wire, broadcast or direct,
\* is the digest of its type, sender id and timestamp, so two envelopes that
\* agree on the three have the same id whatever they carry and whoever
\* they are for.
C19_MessageIdDerivation ==
    /\ \A e \in OnBroadcastWire \cup OnDirectWire :
          e.message_id =
              <<"sha256",
                [utf8 |-> e.type \o e.sender_id \o ToString(e.timestamp)]>>
    /\ \A e1, e2 \in OnBroadcastWire \cup OnDirectWire :
          (e1.type = e2.type /\ e1.sender_id = e2.sender_id
              /\ e1.timestamp = e2.timestamp)
            => e1.message_id = e2.message_id

\* C19 witness: two direct envelopes for different recipients, and two
\* broadcast envelopes with different payloads, agree on type, sender and
\* timestamp.
C19_Witness ==
    /\ \E e1, e2 \in OnDirectWire :
          /\ e1.type = e2.type /\ e1.sender_id = e2.sender_id
          /\ e1.timestamp = e2.timestamp
          /\ e1.recipient_id # e2.recipient_id
    /\ \E e1, e2 \in OnBroadcastWire :
          /\ e1.type = e2.type /\ e1.sender_id = e2.sender_id
          /\ e1.timestamp = e2.timestamp
          /\ e1.data # e2.data

\* C18: the seen set of a receiver holds at most MaxSeen message ids, however
\* many distinct envelopes the receiver has accepted.
C18_SeenSetBounded ==
    \A n \in NodeIds : Cardinality(seen_messages[n]) <= MaxSeen

\* ------------------------------------------------------------------------
\* SpecRegistry: the peer registry over time.  Two nodes start, connect,
\* exchange heartbeats and may stop, until the clock reaches MaxClock.
\* ------------------------------------------------------------------------
NextRegistry ==
    \/ \E n \in NodeIds : NoHeartbeatDue /\ Start(n)
    \/ \E n, p \in NodeIds :
          NoHeartbeatDue /\ sockets[p] = "open" /\ ConnectToPeer(n, p)
    \/ \E n \in NodeIds : NoHeartbeatDue /\ stop_calls[n] = 0 /\ Stop(n)
    \/ \E n \in NodeIds : HeartbeatLoop(n)
    \/ \E n \in NodeIds : PollSubEmpty(n)
    \/ \E n \in NodeIds : HandleBroadcastMessage(n)
    \/ \E n \in NodeIds : PollRouterEmpty(n)
    \/ \E n \in NodeIds : HandleDirectMessage(n)
    \/ Tick(MaxClock)

SpecRegistry == InitSpec /\ [][NextRegistry]_vars

\* C4: a peer whose last_seen was last set at time T is returned by
\* get_active_peers at every time t with t - T < PEER_TIMEOUT and at no time
\* t with t - T >= PEER_TIMEOUT, swept or not.
C4_LivenessWindow ==
    \A n \in NodeIds : \A p \in DOMAIN touched[n] :
        /\ (now - touched[n][p] < PEER_TIMEOUT) => p \in get_active_peers(n)
        /\ (now - touched[n][p] >= PEER_TIMEOUT) => p \notin get_active_peers(n)

\* C4 witness: the timeout of a peer has just elapsed and the sweep has not
\* removed its record.
C4_Witness ==
    \E n \in NodeIds : \E p \in DOMAIN touched[n] :
        /\ now - touched[n][p] = PEER_TIMEOUT
        /\ p \in DOMAIN peers[n]

\* ------------------------------------------------------------------------
\* SpecManager: the network manager of node_a, whose peer node_b is never
\* started and so never answers; MIN_NODES is 1 or 2.
\* ------------------------------------------------------------------------
NextManager ==
    \/ NoHeartbeatDue /\ Start("node_a")
    \/ NoHeartbeatDue /\ ConnectToPeer("node_a", "node_b")
    \/ HeartbeatLoop("node_a")
    \/ NoHeartbeatDue /\ AddNode("node_a", "node_b")
    \/ NoHeartbeatDue /\ RemoveNode("node_a", "node_b")
    \/ NoHeartbeatDue /\ GetActiveNodes("node_a")
    \/ \E h \in PrevHashes :
          /\ NoHeartbeatDue
          /\ SelectDistanceGenerator("node_a", proposals_made + 1, h, 0)
    \/ BroadcastDistanceProposal("node_a")
    \/ Tick(MaxClock)

SpecManager == Init /\ [][NextManager]_vars

\* C5: select_distance_generator returns None when fewer than MIN_NODES
\* nodes are active at the call and a proposal otherwise, whatever was
\* returned before.
C5_RoundGating ==
    [][\A n \in NodeIds :
          select_result'[n] # select_result[n]
              => (select_result'[n].proposal = None
                    <=> Cardinality(get_active_nodes(n)) < MIN_NODES)]_vars

\* C5 witness: with MIN_NODES = 2 and only the local node active, a call for
\* round 1 has returned None.
C5_Witness ==
    /\ MIN_NODES = 2
    /\ get_active_nodes("node_a") = {"node_a"}
    /\ select_result["node_a"].round_number = 1
    /\ select_result["node_a"].proposal = None

\* C6: get_active_nodes returns the local node whenever it is running, and a
\* remote record if and only if its id is the id of a peer get_active_peers
\* returns.
C6_ActiveNodes ==
    [][\A n \in NodeIds :
          active_nodes_result'[n] # active_nodes_result[n]
              => /\ is_running[n] => n \in active_nodes_result'[n].ids
                 /\ active_nodes_result'[n].ids \subseteq DOMAIN nodes[n]
                 /\ \A r \in DOMAIN nodes[n] \ {n} :
                       r \in active_nodes_result'[n].ids
                           <=> r \in get_active_peers(n)]_vars

\* C6 witness: a call has left out a remote node whose peer record is stale
\* but not yet swept, and returned the running local node.
C6_Witness ==
    \E r \in (DOMAIN nodes["node_a"] \cap DOMAIN peers["node_a"]) \ {"node_a"} :
        /\ now - peers["node_a"][r] >= PEER_TIMEOUT
        /\ active_nodes_result["node_a"].call = 1
        /\ active_nodes_result["node_a"].ids = {"node_a"}
        /\ is_running["node_a"]

\* ------------------------------------------------------------------------
\* SpecVRF: the VRF on its own.  A proof is made, may be altered once or
\* replaced by a malformed one, and is verified.
\* ------------------------------------------------------------------------
Garbage == [garbage |-> TRUE]

\* what a proof can be turned into by changing the named part of it
Alterations(proof, call) ==
    [signature |->
        {[proof EXCEPT !.signature = x] :
            x \in {sign(o, m, j) : o \in NodeIds,
                                   m \in {vrf_message(call.seed, call.node_id),
                                          encode("other")},
                                   j \in Nonces} \cup {Garbage}},
     hash_value |->
        {[proof EXCEPT !.hash_value = x] :
            x \in {sha256(Garbage),
                   sha256(vrf_message(call.seed, call.node_id))}},
     public_key |->
        {[proof EXCEPT !.public_key = x] :
            x \in {public_bytes(o) : o \in NodeIds}
                  \cup {[format |-> "X962-compressed", point |-> o] :
                            o \in NodeIds}
                  \cup {Garbage}},
     seed_or_node_id |->
        {[proof EXCEPT !.seed = x, !.node_id = y] :
            x \in Seeds, y \in SignedIds}]

MalformedProofs ==
    {None,
     Garbage,
     [signature |-> Garbage, hash_value |-> sha256(Garbage),
      public_key |-> Garbage, node_id |-> "node_a"],
     [signature |-> Garbage, hash_value |-> sha256(Garbage),
      public_key |-> Garbage, node_id |-> "node_a",
      seed |-> "distance_round_1_abc"]}

Prove(owner, seed, node_id, k) ==
    /\ vrf_call' = [owner |-> owner, seed |-> seed, node_id |-> node_id,
                    nonce |-> k]
    /\ vrf_held' = prove(owner, seed, node_id, k)
    /\ vrf_altered' = "nothing"
    /\ vrf_result' = "none"
    /\ UNCHANGED <<now, MIN_NODES, send_result, records, lockvars, lifevars, faultvars, netvars,
                   mgrvars, histvars>>

Alter(part) ==
    /\ vrf_call # None /\ vrf_altered = "nothing"
    /\ \E altered \in Alterations(vrf_held, vrf_call)[part] :
          /\ altered # vrf_held
          /\ vrf_held' = altered
    /\ vrf_altered' = part
    /\ vrf_result' = "none"
    /\ UNCHANGED <<now, MIN_NODES, send_result, records, vrf_call, lockvars, lifevars, faultvars,
                   netvars, mgrvars, histvars>>

Malform ==
    /\ vrf_altered # "malformed"
    /\ vrf_held' \in MalformedProofs
    /\ vrf_altered' = "malformed"
    /\ vrf_result' = "none"
    /\ UNCHANGED <<now, MIN_NODES, send_result, records, vrf_call, lockvars, lifevars, faultvars,
                   netvars, mgrvars, histvars>>

Verify ==
    /\ vrf_altered = "nothing" => vrf_call # None
    /\ vrf_result = "none"
    /\ vrf_result' = verify(vrf_held)
    /\ UNCHANGED <<now, MIN_NODES, send_result, records, vrf_call, vrf_held, vrf_altered, lockvars,
                   lifevars, faultvars, netvars, mgrvars, histvars>>

NextVRF ==
    \/ \E owner \in NodeIds, seed \in Seeds, node_id \in SignedIds, k \in Nonces :
          Prove(owner, seed, node_id, k)
    \/ \E part \in {"signature", "hash_value", "public_key", "seed_or_node_id"} :
          Alter(part)
    \/ Malform
    \/ Verify

SpecVRF == InitSpec /\ [][NextVRF]_vars

\* C9: verify answers true for a proof as prove returned it; the proof's
\* hash value is the digest of its signature and it carries the seed and the
\* node id it was made for.
C9_RoundTrip ==
    (vrf_call # None /\ vrf_altered = "nothing")
        => /\ vrf_result \in {"none", "true"}
           /\ vrf_held.hash_value = sha256(vrf_held.signature)
           /\ vrf_held.seed = vrf_call.seed
           /\ vrf_held.node_id = vrf_call.node_id

\* C9 witness: a proof made for a seed and a node id has been verified as
\* prove returned it.
C9_Witness ==
    /\ vrf_call # None /\ vrf_altered = "nothing"
    /\ vrf_result = "true"

\* C10: verify answers false, as a value, for a proof altered in its
\* signature, hash value or public key, for a proof whose seed or node id
\* is not the signed one, and for a malformed proof.
C10_Rejection ==
    (vrf_altered # "nothing" /\ vrf_result # "none") => vrf_result = "false"

\* ------------------------------------------------------------------------
\* Consensus locks: a selection takes the lock of its kind, reads the
\* active nodes, and leaves the lock when it has its result
\* ------------------------------------------------------------------------
lock_shared(kind) == "distance_consensus_lock"

\* the lock a selection of a kind runs under
lock_of(kind) ==
    IF kind = "distance" THEN "distance_consensus_lock"
                         ELSE "mining_consensus_lock"

lock_ignored(n, lock) == TRUE

\* asyncio.Lock.acquire returns when the lock is not held
lock_free(n, lock) == consensus_locks[n][lock] = "free"

Inside(kind) ==
    {c \in Callers : callers[c].pc = "inside" /\ callers[c].kind = kind}

Waiting(kind) ==
    {c \in Callers : callers[c].pc = "waiting" /\ callers[c].kind = kind}

\* a caller calls select_distance_generator or the mining selection
CallSelect(c, kind) ==
    /\ callers[c].pc = "idle"
    /\ callers' = [callers EXCEPT ![c] = [pc |-> "waiting", kind |-> kind,
                                          active_nodes |-> {}]]
    /\ UNCHANGED <<now, MIN_NODES, send_result, records, vrfvars, consensus_locks, lifevars,
                   faultvars, netvars, mgrvars, histvars>>

\* async with the lock: entered, and the active nodes read
EnterSelect(n, c) ==
    /\ callers[c].pc = "waiting"
    /\ lock_free(n, lock_of(callers[c].kind))
    /\ consensus_locks' =
          [consensus_locks EXCEPT ![n][lock_of(callers[c].kind)] = c]
    /\ callers' = [callers EXCEPT
                      ![c].pc = "inside",
                      ![c].active_nodes = IF callers[c].kind = "distance"
                                          THEN get_active_nodes(n) ELSE {}]
    /\ nodes' = IF callers[c].kind = "distance"
                THEN [nodes EXCEPT ![n] = flags_after(n)] ELSE nodes
    /\ UNCHANGED <<now, MIN_NODES, send_result, records, vrfvars, lifevars, faultvars, netvars,
                   proposals_made, active_nodes_result, select_result,
                   histvars>>

\* a lock taken with acquire and released on the way out of the full body
\* only
holder_after_unless_early(c, early) == IF early THEN c ELSE "free"

\* the end of the async with block, reached by the early return as by the
\* end of the body: the lock is released
holder_after(c, early) == "free"

\* the selection returns and the lock is released
LeaveSelect(n, c, round_number, last_block_hash, k) ==
    /\ callers[c].pc = "inside"
    /\ consensus_locks' =
          [consensus_locks EXCEPT
              ![n][lock_of(callers[c].kind)] =
                  holder_after(c, /\ callers[c].kind = "distance"
                                  /\ insufficient(callers[c].active_nodes))]
    /\ callers' = [callers EXCEPT ![c] = [pc |-> "idle", kind |-> "none",
                                          active_nodes |-> {}]]
    /\ IF callers[c].kind # "distance"
       THEN UNCHANGED <<select_result, broadcast_tasks, proposals_made,
                        proposed>>
       ELSE IF insufficient(callers[c].active_nodes)
       THEN /\ select_result' =
                  [select_result EXCEPT
                      ![n] = [call |-> 1 - @.call,
                              round_number |-> round_number,
                              proposal |-> None]]
            /\ UNCHANGED <<broadcast_tasks, proposals_made, proposed>>
       ELSE /\ proposals_made < MaxProposals
            /\ proposals_made' = proposals_made + 1
            /\ select_result' =
                  [select_result EXCEPT
                      ![n] = [call |-> 1 - @.call,
                              round_number |-> round_number,
                              proposal |-> selected_proposal(
                                  n, round_number, last_block_hash, k)]]
            /\ broadcast_tasks' =
                  [broadcast_tasks EXCEPT
                      ![n] = Append(@, selected_proposal(
                                  n, round_number, last_block_hash, k))]
            /\ proposed' = proposed_after(n, round_number, last_block_hash)
    /\ UNCHANGED <<now, MIN_NODES, send_result, records, vrfvars, lifevars, faultvars, sockets,
                   tasks, is_running, heartbeat_due, mp_pc, peers,
                   active_connections, message_handlers, seen_messages,
                   pending_vrf_proposals, sub_connected, dealer_connected,
                   sub_inbox, router_inbox, nodes, active_nodes_result,
                   deliveries, handler_calls, touched, connect_time, connect_failed>>

\* ------------------------------------------------------------------------
\* SpecLocks: two callers of the selections of the manager of node_a
\* ------------------------------------------------------------------------
NextLocks ==
    \/ NoHeartbeatDue /\ Start("node_a")
    \/ NoHeartbeatDue /\ ConnectToPeer("node_a", "node_b")
    \/ HeartbeatLoop("node_a")
    \/ NoHeartbeatDue /\ AddNode("node_a", "node_b")
    \/ \E c \in Callers, kind \in {"distance", "mining"} : CallSelect(c, kind)
    \/ \E c \in Callers : EnterSelect("node_a", c)
    \/ \E c \in Callers, h \in PrevHashes :
          LeaveSelect("node_a", c, proposals_made + 1, h, 0)
    \/ BroadcastDistanceProposal("node_a")

SpecLocks == Init /\ [][NextLocks]_vars

\* C11: at most one caller at a time is inside the distance selection, and a
\* caller waits for it as long as another caller is inside.
C11_DistanceMutex ==
    /\ Cardinality(Inside("distance")) <= 1
    /\ \A c \in Waiting("distance") :
          Inside("distance") # {} => ~ENABLED EnterSelect("node_a", c)

\* C11 witness: one caller is inside the distance selection and the other
\* one waits for it.
C11_Witness ==
    /\ Cardinality(Inside("distance")) = 1
    /\ Waiting("distance") # {}

\* C12: a selection of one kind that is in flight never keeps a waiting
\* selection of the other kind from entering.
C12_KindIndependence ==
    \A c \in Callers : \A kind \in {"distance", "mining"} :
        (c \in Waiting(kind) /\ Inside(kind) = {})
            => ENABLED EnterSelect("node_a", c)

\* C12 witness: a distance selection and a mining selection are in flight
\* together.
C12_Witness ==
    /\ Inside("distance") # {}
    /\ Inside("mining") # {}

\* ------------------------------------------------------------------------
\* SpecLife: the life of two transports.  A start works or fails at a bind,
\* a node is stopped once or again at any moment, also when its heartbeat
\* is due, and the loops run in between.
\* ------------------------------------------------------------------------
NextLife ==
    \/ \E n \in NodeIds : NoHeartbeatDue /\ Start(n)
    \/ \E n \in NodeIds, failure \in BindFailures :
          NoHeartbeatDue /\ StartFails(n, failure)
    \/ \E n, p \in NodeIds :
          NoHeartbeatDue /\ sockets[p] = "open" /\ ConnectToPeer(n, p)
    \/ \E n \in NodeIds : Stop(n)
    \/ \E n \in NodeIds : HeartbeatLoop(n)
    \/ \E n \in NodeIds : PollSubEmpty(n)
    \/ \E n \in NodeIds : HandleBroadcastMessage(n)
    \/ \E n \in NodeIds : PollRouterEmpty(n)
    \/ \E n \in NodeIds : HandleDirectMessage(n)
    \/ Tick(MaxClock)

SpecLife == InitSpec /\ [][NextLife]_vars

Stopped(n) == ~start_failed[n] /\ stop_calls[n] >= 1

\* C13: after start and stop a transport is not running, its two loops are
\* cancelled and its four sockets are closed; a further stop changes none of
\* that.
C13_StopRepeatable ==
    /\ [](\A n \in NodeIds :
            Stopped(n) =>
                /\ ~is_running[n]
                /\ tasks[n] = "cancelled"
                /\ \A e \in EndpointNames : endpoints[n][e] = "closed")
    /\ [][\A n \in NodeIds :
            (Stopped(n) /\ Stop(n)) =>
                UNCHANGED <<is_running, tasks, sockets, endpoints,
                            heartbeat_due, mp_pc, peers, active_connections,
                            message_handlers, seen_messages, sub_inbox,
                            router_inbox, deliveries, handler_calls>>]_vars

\* C13 witness: a started node has been stopped twice.
C13_Witness ==
    \E n \in NodeIds :
        /\ ~start_failed[n]
        /\ stop_calls[n] = 2
        /\ endpoints[n]["dealer_socket"] = "closed"

\* C14: once stop has returned on a node, that node runs no handler, sends
\* no heartbeat and evicts no peer.
C14_CancellationObserved ==
    [][\A n \in NodeIds :
          stop_calls[n] >= 1 =>
              /\ handler_calls'[n] = handler_calls[n]
              /\ seen_messages'[n] = seen_messages[n]
              /\ heartbeat_due'[n] = heartbeat_due[n]
              /\ peers'[n] = peers[n]
              /\ \A p \in NodeIds :
                    Len(sub_inbox'[p]) > Len(sub_inbox[p]) =>
                        json_loads(sub_inbox'[p][Len(sub_inbox'[p])][2])
                            .sender_id # n]_vars

\* C14 witness: a node was stopped while its heartbeat was in the past and a
\* peer was in its registry, and time has moved on since.
C14_Witness ==
    \E n \in NodeIds :
        /\ Stopped(n)
        /\ peers[n] # EmptyMap
        /\ heartbeat_due[n] <= now

\* C15: when a bind fails in start, the transport is not running, neither
\* loop has been created and no socket that was created is left open.
C15_NoHalfStart ==
    \A n \in NodeIds :
        start_failed[n] =>
            /\ ~is_running[n]
            /\ tasks[n] = "none"
            /\ \A e \in EndpointNames : endpoints[n][e] # "open"

\* C15 witness: the bind of the router socket failed after three sockets
\* had been created, and they are closed.
C15_Witness ==
    \E n \in NodeIds :
        /\ start_failed[n]
        /\ endpoints[n]["router_socket"] = "closed"
        /\ endpoints[n]["dealer_socket"] = "none"

\* C16: a start that failed at a bind does not go on: the node registers no
\* handler.
C16_StartupFailureSurfaced ==
    \A n \in NodeIds : start_failed[n] => message_handlers[n] = {}

\* ------------------------------------------------------------------------
\* SpecFaults: two nodes that connect to each other over one heartbeat
\* interval; node_b also sends node_a what is not an envelope: a short multipart
\* message, bytes that are not JSON, an envelope with a key missing, an
\* envelope its handler cannot read.
\* ------------------------------------------------------------------------
without(record, key) == [k \in DOMAIN record \ {key} |-> record[k]]

BadBroadcastFrames(p) ==
    LET envelope == json_loads(broadcast_frames(heartbeat_message(p))[2])
        proposal == [envelope EXCEPT !.type = "vrf_distance_proposal"]
    IN  {<<"heartbeat">>, <<"heartbeat", Garbage>>}
        \cup {<<"heartbeat", json_dumps(without(envelope, k))>> :
                 k \in EnvelopeKeys}
        \cup {<<"vrf_distance_proposal", json_dumps(without(proposal, "data"))>>}

BadDirectFrames(p, n) ==
    LET envelope == json_loads(direct_bytes(handshake_message(p, n)))
    IN  {<<p>>, <<p, Garbage>>}
        \cup {<<p, json_dumps(without(envelope, k))>> :
                 k \in {"type", "sender_id"}}

\* a publisher n is subscribed to sends frames; they wait on n's sub_socket
ReceiveBadBroadcast(n, p, frames) ==
    /\ sockets[n] = "open" /\ sub_connected[n][p] > 0
    /\ bad_received[n] < MaxBad
    /\ bad_received' = [bad_received EXCEPT ![n] = @ + 1]
    /\ Len(sub_inbox[n]) < MaxInbox
    /\ frames \in BadBroadcastFrames(p)
    /\ sub_inbox' = [sub_inbox EXCEPT ![n] = Append(@, frames)]
    /\ UNCHANGED <<now, MIN_NODES, send_result, records, vrfvars, lockvars, lifevars, bad_taken,
                   handled_after_bad, sockets, tasks, is_running, heartbeat_due, mp_pc, peers,
                   active_connections, message_handlers, seen_messages,
                   pending_vrf_proposals, sub_connected, dealer_connected,
                   router_inbox, broadcast_tasks, mgrvars, histvars>>

\* a dealer sends frames to n's router socket
ReceiveBadDirect(n, p, frames) ==
    /\ sockets[n] = "open"
    /\ bad_received[n] < MaxBad
    /\ bad_received' = [bad_received EXCEPT ![n] = @ + 1]
    /\ Len(router_inbox[n]) < MaxInbox
    /\ frames \in BadDirectFrames(p, n)
    /\ router_inbox' = [router_inbox EXCEPT ![n] = Append(@, frames)]
    /\ UNCHANGED <<now, MIN_NODES, send_result, records, vrfvars, lockvars, lifevars, bad_taken,
                   handled_after_bad, sockets, tasks, is_running, heartbeat_due, mp_pc, peers,
                   active_connections, message_handlers, seen_messages,
                   pending_vrf_proposals, sub_connected, dealer_connected,
                   sub_inbox, broadcast_tasks, mgrvars, histvars>>

NextFaults ==
    \/ \E n \in NodeIds : NoHeartbeatDue /\ Start(n)
    \/ \E n, p \in NodeIds :
          /\ NoHeartbeatDue /\ sockets[p] = "open" /\ n # p
          /\ ConnectToPeer(n, p)
    \/ \E frames \in BadBroadcastFrames("node_b") :
          NoHeartbeatDue /\ ReceiveBadBroadcast("node_a", "node_b", frames)
    \/ \E frames \in BadDirectFrames("node_b", "node_a") :
          NoHeartbeatDue /\ ReceiveBadDirect("node_a", "node_b", frames)
    \/ \E n \in NodeIds : HeartbeatLoop(n)
    \/ \E n \in NodeIds : PollSubEmpty(n)
    \/ \E n \in NodeIds : HandleBroadcastMessage(n)
    \/ \E n \in NodeIds : PollRouterEmpty(n)
    \/ \E n \in NodeIds : HandleDirectMessage(n)
    \/ Tick(MaxTime)

SpecFaults == InitSpec /\ [][NextFaults]_vars

\* the envelope at the head of a channel is well formed and nothing in the
\* dispatcher's checks discards it
GoodBroadcastHead(n) ==
    /\ sub_inbox[n] # <<>>
    /\ Len(Head(sub_inbox[n])) = 2
    /\ IsJson(Head(sub_inbox[n])[2])
    /\ LET message_data == json_loads(Head(sub_inbox[n])[2])
       IN  /\ has(message_data, EnvelopeKeys \cup {"data"})
           /\ message_data.sender_id # n
           /\ message_data.message_id \notin seen_messages[n]
           /\ message_data.type \in message_handlers[n]

GoodDirectHead(n) ==
    /\ router_inbox[n] # <<>>
    /\ Len(Head(router_inbox[n])) = 2
    /\ IsJson(Head(router_inbox[n])[2])
    /\ LET message_data == json_loads(Head(router_inbox[n])[2])
       IN  /\ has(message_data, EnvelopeKeys \cup {"data"})
           /\ message_data.type \in message_handlers[n]

\* C17: after a node has taken a message that failed to decode, lacked a
\* key or made its handler fail, its dispatch loop is still running, and
\* each well-formed envelope it takes from a channel after that is handed to
\* the handler registered for its type.
C17_BadMessageNeverHalts ==
    /\ [](\A n \in NodeIds : bad_taken[n] => Dispatching(n))
    /\ [][\A n \in NodeIds :
            /\ (bad_taken[n] /\ GoodBroadcastHead(n) /\ mp_pc[n] = "sub"
                    /\ mp_pc'[n] = "router")
                 => handler_calls'[n] =
                      AddToBag(handler_calls[n],
                          <<"broadcast",
                            json_loads(Head(sub_inbox[n])[2]).type,
                            json_loads(Head(sub_inbox[n])[2]).message_id>>)
            /\ (bad_taken[n] /\ GoodDirectHead(n) /\ mp_pc[n] = "router"
                    /\ mp_pc'[n] = "sub")
                 => handler_calls'[n] =
                      AddToBag(handler_calls[n],
                          <<"direct",
                            json_loads(Head(router_inbox[n])[2]).type,
                            json_loads(Head(router_inbox[n])[2]).message_id>>)]_vars

\* C17 witness: a node has taken a bad message and has run a handler to its
\* end for an envelope it took after that.
C17_Witness ==
    \E n \in NodeIds : bad_taken[n] /\ handled_after_bad[n]

\* ------------------------------------------------------------------------
\* SpecSeeds: node_a generates distance and mining proposals for rounds,
\* previous hashes and winners drawn from small sets, and its tasks
\* broadcast them.
\* ------------------------------------------------------------------------
NextSeeds ==
    \/ \E r \in SeedRounds, h \in SeedHashes :
          GenerateDistanceProposal("node_a", r, h, 0)
    \/ \E r \in SeedRounds, h \in SeedHashes, winner_data \in WinnerData :
          GenerateMiningProposal("node_a", r, winner_data, h, 0)
    \/ BroadcastDistanceProposal("node_a")
    \/ BroadcastMiningProposal("node_a")

SpecSeeds == InitSpec /\ [][NextSeeds]_vars

\* C20: two proposals are built on the same seed only when they are of the
\* same kind, for the same round and the same previous hash and, if they
\* are mining proposals, for the same winner.
C20_SeedsNotReused ==
    \A p1, p2 \in proposed :
        p1.seed = p2.seed =>
            /\ p1.kind = p2.kind
            /\ p1.round_number = p2.round_number
            /\ p1.last_block_hash = p2.last_block_hash
            /\ p1.kind = "mining" => p1.user_id = p2.user_id

\* the round-specific payload of a proposal
payload_of(proposal) ==
    IF "block_data" \in DOMAIN proposal
    THEN proposal.block_data
    ELSE [target_distance |-> proposal.target_distance]

\* C21: the seed a proposal's proof signs determines the proposal's round
\* number and payload: two proposals a node builds on the same seed carry
\* the same round number and the same payload, so a payload or round number
\* changed under an unchanged proof can be told from a generated one.
C21_ContentBoundToSeed ==
    \A n \in NodeIds : \A i, j \in 1..Len(broadcast_tasks[n]) :
        broadcast_tasks[n][i].vrf_proof.seed = broadcast_tasks[n][j].vrf_proof.seed
            => /\ broadcast_tasks[n][i].round_number
                    = broadcast_tasks[n][j].round_number
               /\ payload_of(broadcast_tasks[n][i])
                    = payload_of(broadcast_tasks[n][j])

\* ------------------------------------------------------------------------
\* SpecDistance: node_a generates distance proposals for several previous
\* hashes and signing nonces, and node_b, subscribed to it, receives them.
\* ------------------------------------------------------------------------
NextDistance ==
    \/ \E n \in NodeIds : NoHeartbeatDue /\ Start(n)
    \/ /\ NoHeartbeatDue /\ sockets["node_a"] = "open"
       /\ ConnectToPeer("node_b", "node_a")
    \/ \E n \in NodeIds : HeartbeatLoop(n)
    \/ \E n \in NodeIds : PollSubEmpty(n)
    \/ \E n \in NodeIds : HandleBroadcastMessage(n)
    \/ \E n \in NodeIds : PollRouterEmpty(n)
    \/ \E n \in NodeIds : HandleDirectMessage(n)
    \/ \E h \in SeedHashes, k \in Nonces :
          /\ NoHeartbeatDue
          /\ GenerateDistanceProposal("node_a", proposals_made + 1, h, k)
    \/ BroadcastDistanceProposal("node_a")

SpecDistance == InitSpec /\ [][NextDistance]_vars

\* the distance proposals in envelopes that wait on a sub socket
DistancePayloads ==
    {e.data.proposal : e \in {x \in OnBroadcastWire :
                                  x.type = "vrf_distance_proposal"}}

\* the first four bytes of a hash value read as a big-endian unsigned integer
BigEndian(hash_value) ==
    first_bytes(hash_value)[1] * 16777216 + first_bytes(hash_value)[2] * 65536
        + first_bytes(hash_value)[3] * 256 + first_bytes(hash_value)[4]

\* C22: the target distance in a distance-proposal envelope, in thousandths
\* of a kilometre, is 100 + (the first four bytes of the hash value in the
\* same envelope as a big-endian integer, modulo 9900); it lies between 100
\* and 10000, and envelopes with the same hash value carry the same target
\* distance.
C22_TargetDistance ==
    /\ \A p \in DistancePayloads :
          /\ p.target_distance
                = 100 + (BigEndian(fromhex(p.vrf_proof.hash_value)) % 9900)
          /\ p.target_distance >= 100
          /\ p.target_distance <= 10000
    /\ \A p1, p2 \in DistancePayloads :
          p1.vrf_proof.hash_value = p2.vrf_proof.hash_value
              => p1.target_distance = p2.target_distance

\* C22 witness: two envelopes wait, one with the greatest target distance
\* the mapping gives and one with the least, from a hash prefix that the
\* modulo wraps.
C22_Witness ==
    /\ \E p \in DistancePayloads : p.target_distance = 9999
    /\ \E p \in DistancePayloads :
          /\ p.target_distance = 100
          /\ BigEndian(fromhex(p.vrf_proof.hash_value)) >= 9900

\* ------------------------------------------------------------------------
\* The peer set over time (SpecRegistry)
\* ------------------------------------------------------------------------
removed_peers(n) == DOMAIN peers[n] \ DOMAIN peers'[n]

\* C23: a step that removes a peer record from the registry of a node is an
\* iteration of that node's heartbeat loop; the record's last_seen is then
\* more than PEER_TIMEOUT old and get_active_peers would not return the peer
\* at that instant.
C23_OnlySweepShrinks ==
    [][\A n \in NodeIds : \A p \in removed_peers(n) :
           /\ HeartbeatLoop(n)
           /\ now - peers[n][p] > PEER_TIMEOUT
           /\ p \notin get_active_peers(n)]_vars

\* C23 witness: a record that was registered is gone, more than PEER_TIMEOUT
\* after its last refresh.
C23_Witness ==
    \E n \in NodeIds : \E p \in DOMAIN touched[n] :
        /\ p \notin DOMAIN peers[n]
        /\ now - touched[n][p] > PEER_TIMEOUT

\* the heartbeat loop of n is asleep: its iteration for this instant is done
Swept(n) == Looping(n) /\ heartbeat_due[n] > now

\* C24: the heartbeat loop of a running node is never asleep for longer than
\* HEARTBEAT_INTERVAL, and once it has swept at a time that is PEER_TIMEOUT
\* plus HEARTBEAT_INTERVAL or more after the last refresh of a peer, that peer
\* is neither in the registry nor in the active-connections set.
C24_SilentPeerEvicted ==
    \A n \in NodeIds :
        /\ Looping(n) => heartbeat_due[n] <= now + HEARTBEAT_INTERVAL
        /\ \A p \in DOMAIN touched[n] :
              (Swept(n) /\ now - touched[n][p] >= PEER_TIMEOUT + HEARTBEAT_INTERVAL)
                  => /\ p \notin DOMAIN peers[n]
                     /\ p \notin active_connections[n]

\* C24 witness: a running node has swept exactly PEER_TIMEOUT plus
\* HEARTBEAT_INTERVAL after the last refresh of a peer that was still
\* registered at PEER_TIMEOUT.
C24_Witness ==
    \E n \in NodeIds : \E p \in DOMAIN touched[n] :
        /\ Swept(n)
        /\ now - touched[n][p] = PEER_TIMEOUT + HEARTBEAT_INTERVAL
        /\ p \notin DOMAIN peers[n]
        /\ p \notin active_connections[n]

\* B has connected to A while A was started, and both have been running
\* without a stop since: every heartbeat of A is delivered to B
HeartbeatsDelivered(a, b) ==
    /\ a # b
    /\ a \in DOMAIN connect_time[b]
    /\ Looping(a) /\ stop_calls[a] = 0
    /\ Looping(b) /\ stop_calls[b] = 0

\* C25: while the heartbeats of A are delivered to B, which has connected to
\* A, A has a record in the registry of B and get_active_peers of B returns
\* A.
C25_TalkingPeerStaysActive ==
    \A a, b \in NodeIds :
        HeartbeatsDelivered(a, b)
            => /\ a \in DOMAIN peers[b]
               /\ a \in get_active_peers(b)

\* C25 witness: more than PEER_TIMEOUT after B connected to A, A is still an
\* active peer of B.
C25_Witness ==
    \E a, b \in NodeIds :
        /\ HeartbeatsDelivered(a, b)
        /\ now - connect_time[b][a] > PEER_TIMEOUT
        /\ a \in get_active_peers(b)

\* C26: when a node takes a handshake from the direct channel, or a
\* broadcast envelope that is neither its own nor a duplicate, and the sender
\* has no record in its registry, the registry has a record of the sender
\* after the step.
C26_CreatedOnFirstContact ==
    [][\A n \in NodeIds :
          /\ (/\ HandleDirectMessage(n)
              /\ NextDirect(n).type = "handshake"
              /\ NextDirect(n).sender_id \notin DOMAIN peers[n])
                 => NextDirect(n).sender_id \in DOMAIN peers'[n]
          /\ (/\ HandleBroadcastMessage(n)
              /\ ~Discardable(n, NextBroadcast(n))
              /\ NextBroadcast(n).sender_id \notin DOMAIN peers[n])
                 => NextBroadcast(n).sender_id \in DOMAIN peers'[n]]_vars

\* what the dispatch of an accepted envelope leaves behind at node n
dispatched(n, channel, message_data) ==
    /\ message_data.message_id \in seen_messages'[n]
    /\ peers'[n][message_data.sender_id] = now
    /\ IF message_data.type \in message_handlers[n]
       THEN CopiesIn(<<channel, message_data.type, message_data.message_id>>,
                     handler_calls'[n])
               = CopiesIn(<<channel, message_data.type, message_data.message_id>>,
                          handler_calls[n]) + 1
       ELSE handler_calls'[n] = handler_calls[n] /\ tasks'[n] = tasks[n]

\* C27: the dispatch, on either channel, of an envelope of a registered peer
\* that is neither the node's own nor a duplicate puts the message id in the
\* seen set, sets the sender's last_seen to the present time and invokes the
\* handler of the type once if one is registered; with no handler nothing
\* runs and nothing fails.
C27_AcceptedDispatch ==
    [][\A n \in NodeIds :
          /\ (/\ HandleBroadcastMessage(n)
              /\ ~Discardable(n, NextBroadcast(n))
              /\ NextBroadcast(n).sender_id \in DOMAIN peers[n])
                 => dispatched(n, "broadcast", NextBroadcast(n))
          /\ (/\ HandleDirectMessage(n)
              /\ ~Discardable(n, NextDirect(n))
              /\ NextDirect(n).sender_id \in DOMAIN peers[n])
                 => dispatched(n, "direct", NextDirect(n))]_vars

\* ------------------------------------------------------------------------
\* SpecBuffer: node_b, subscribed to node_a, buffers the distance and mining
\* proposals node_a broadcasts and proposals under node_a's name whose proof
\* does not verify.
\* ------------------------------------------------------------------------
forged(proposal) ==
    [proposal EXCEPT !.vrf_proof.hash_value = sha256(encode("forged"))]

ForgedProposalFrames(p) ==
    {broadcast_frames(distance_proposal_message(p,
         forged(distance_proposal(p, 1, "abc", 0)))),
     broadcast_frames(mining_proposal_message(p,
         forged(mining_proposal(p, 1, [user_id |-> "c", travel_distance |-> 1],
                                "abc", 0))))}

\* a publisher n is subscribed to sends a proposal with a forged proof
ReceiveForgedProposal(n, p, frames) ==
    /\ sockets[n] = "open" /\ sub_connected[n][p] > 0
    /\ bad_received[n] < MaxBad
    /\ bad_received' = [bad_received EXCEPT ![n] = @ + 1]
    /\ Len(sub_inbox[n]) < MaxInbox
    /\ frames \in ForgedProposalFrames(p)
    /\ sub_inbox' = [sub_inbox EXCEPT ![n] = Append(@, frames)]
    /\ UNCHANGED <<now, MIN_NODES, send_result, records, vrfvars, lockvars, lifevars, bad_taken,
                   handled_after_bad, sockets, tasks, is_running, heartbeat_due, mp_pc, peers,
                   active_connections, message_handlers, seen_messages,
                   pending_vrf_proposals, sub_connected, dealer_connected,
                   router_inbox, broadcast_tasks, mgrvars, histvars>>

NextBuffer ==
    \/ \E n \in NodeIds : NoHeartbeatDue /\ Start(n)
    \/ /\ NoHeartbeatDue /\ sockets["node_a"] = "open"
       /\ sub_connected["node_b"]["node_a"] = 0
       /\ ConnectToPeer("node_b", "node_a")
    \/ \E frames \in ForgedProposalFrames("node_a") :
          NoHeartbeatDue /\ ReceiveForgedProposal("node_b", "node_a", frames)
    \/ \E n \in NodeIds : HeartbeatLoop(n)
    \/ \E n \in NodeIds : PollSubEmpty(n)
    \/ \E n \in NodeIds : HandleBroadcastMessage(n)
    \/ \E n \in NodeIds : PollRouterEmpty(n)
    \/ \E n \in NodeIds : HandleDirectMessage(n)
    \/ \E h \in PrevHashes :
          /\ NoHeartbeatDue
          /\ GenerateDistanceProposal("node_a", proposals_made + 1, h, 0)
    \/ \E h \in PrevHashes :
          /\ NoHeartbeatDue
          /\ GenerateMiningProposal("node_a", proposals_made + 1,
                                    [user_id |-> "c", travel_distance |-> 1], h, 0)
    \/ BroadcastDistanceProposal("node_a")
    \/ BroadcastMiningProposal("node_a")
    \/ Tick(MaxTime)

SpecBuffer == InitSpec /\ [][NextBuffer]_vars

kind_of(type) ==
    IF type = "vrf_distance_proposal" THEN "distance" ELSE "mining"

ProposalTypes == {"vrf_distance_proposal", "vrf_mining_proposal"}

\* the envelope at the head of the broadcast channel of n is a proposal that
\* the dispatcher hands to its handler
ProposalDispatched(n) ==
    /\ HandleBroadcastMessage(n)
    /\ NextBroadcast(n).sender_id # n
    /\ NextBroadcast(n).message_id \notin seen_messages[n]
    /\ NextBroadcast(n).type \in ProposalTypes
    /\ NextBroadcast(n).type \in message_handlers[n]

\* C28: the dispatch of a proposal envelope appends the pair of its kind and
\* its payload to the end of the pending list, whatever the proof in it; every
\* other step leaves the list as it is, so no entry is ever removed, moved
\* or replaced.
C28_BufferingWithoutVerification ==
    [][\A n \in NodeIds :
          IF ProposalDispatched(n)
          THEN pending_vrf_proposals'[n] =
                  Append(pending_vrf_proposals[n],
                         <<kind_of(NextBroadcast(n).type), NextBroadcast(n).data>>)
          ELSE pending_vrf_proposals'[n] = pending_vrf_proposals[n]]_vars

\* C28 witness: the pending list holds a distance entry and a mining entry,
\* one of them with a proof that does not verify and one with a proof that
\* does.
C28_Witness ==
    \E n \in NodeIds : \E i, j \in 1..Len(pending_vrf_proposals[n]) :
        /\ pending_vrf_proposals[n][i][1] = "distance"
        /\ pending_vrf_proposals[n][j][1] = "mining"
        /\ verify(wire_proof(pending_vrf_proposals[n][i][2].proposal))
              # verify(wire_proof(pending_vrf_proposals[n][j][2].proposal))

\* ------------------------------------------------------------------------
\* SpecPublish: node_a generates distance and mining proposals and may be
\* stopped before the tasks that broadcast them have run; node_b listens.
\* The event loop runs every task that was created, and every running
\* message processor goes on polling.
\* ------------------------------------------------------------------------
NextPublish ==
    \/ \E n \in NodeIds : NoHeartbeatDue /\ Start(n)
    \/ /\ NoHeartbeatDue /\ sockets["node_a"] = "open"
       /\ sub_connected["node_b"]["node_a"] = 0
       /\ ConnectToPeer("node_b", "node_a")
    \/ NoHeartbeatDue /\ stop_calls["node_a"] = 0 /\ Stop("node_a")
    \/ \E n \in NodeIds : HeartbeatLoop(n)
    \/ \E n \in NodeIds : PollSubEmpty(n)
    \/ \E n \in NodeIds : HandleBroadcastMessage(n)
    \/ \E n \in NodeIds : PollRouterEmpty(n)
    \/ \E n \in NodeIds : HandleDirectMessage(n)
    \/ \E h \in PrevHashes :
          /\ NoHeartbeatDue
          /\ GenerateDistanceProposal("node_a", proposals_made + 1, h, 0)
    \/ \E h \in PrevHashes :
          /\ NoHeartbeatDue
          /\ GenerateMiningProposal("node_a", proposals_made + 1,
                                    [user_id |-> "c", travel_distance |-> 1], h, 0)
    \/ BroadcastDistanceProposal("node_a")
    \/ BroadcastMiningProposal("node_a")

SpecPublish ==
    /\ InitSpec /\ [][NextPublish]_vars
    /\ WF_vars(BroadcastDistanceProposal("node_a"))
    /\ WF_vars(BroadcastMiningProposal("node_a"))
    /\ \A n \in NodeIds :
          WF_vars(\/ HeartbeatLoop(n)
                  \/ PollSubEmpty(n) \/ HandleBroadcastMessage(n)
                  \/ PollRouterEmpty(n) \/ HandleDirectMessage(n))

\* a proposal is returned to the caller in this step
Returns == proposed' # proposed

\* the task at the head of the queue of n runs in this step
Publishes(n) ==
    /\ broadcast_tasks[n] # <<>>
    /\ broadcast_tasks'[n] = Tail(broadcast_tasks[n])

\* the returned proposal an envelope on the wire was built from
ReturnedFor(e) ==
    {r \in proposed :
        /\ r.node_id = e.data.proposal.node_id
        /\ r.round_number = e.data.proposal.round_number
        /\ r.at = e.data.proposal.timestamp
        /\ r.seed = e.data.proposal.vrf_proof.seed}

\* C29: the step in which a proposal is returned publishes nothing and
\* leaves one more task waiting; an envelope with a proposal is on the wire
\* only after that proposal was returned; the step in which the task runs,
\* with the socket open or closed, changes no returned proposal and stops no
\* loop; and every task that was created does run.
C29_GenerationDoesNotWait ==
    /\ [][Returns =>
             /\ sub_inbox' = sub_inbox
             /\ router_inbox' = router_inbox
             /\ \E n \in NodeIds :
                   /\ Len(broadcast_tasks'[n]) = Len(broadcast_tasks[n]) + 1
                   /\ SubSeq(broadcast_tasks'[n], 1, Len(broadcast_tasks[n]))
                         = broadcast_tasks[n]]_vars
    /\ [](\A e \in OnBroadcastWire :
             e.type \in ProposalTypes => ReturnedFor(e) # {})
    /\ [][\A n \in NodeIds :
             Publishes(n) => /\ proposed' = proposed
                             /\ tasks' = tasks
                             /\ is_running' = is_running]_vars
    /\ [][proposed \subseteq proposed']_vars
    /\ \A n \in NodeIds :
          (broadcast_tasks[n] # <<>>) ~> (broadcast_tasks[n] = <<>>)

\* C29 witness: node_a has returned a proposal and was stopped before the
\* task ran; the task has run and node_b, listening, has been sent nothing.
C29_Witness ==
    /\ proposed # {}
    /\ sockets["node_a"] = "closed"
    /\ broadcast_tasks["node_a"] = <<>>
    /\ Looping("node_b") /\ sub_connected["node_b"]["node_a"] > 0
    /\ sub_inbox["node_b"] = <<>>
    /\ \A e \in Delivered("node_b") : e[3] \notin ProposalTypes

\* ------------------------------------------------------------------------
\* SpecHandshake: nodes start and connect to each other; every running
\* message processor goes on polling its two sockets.
\* ------------------------------------------------------------------------
NextHandshake ==
    \/ \E n \in NodeIds : NoHeartbeatDue /\ Start(n)
    \/ \E n, p \in NodeIds :
          NoHeartbeatDue /\ sockets[p] = "open" /\ ConnectToPeer(n, p)
    \/ \E n \in NodeIds : HeartbeatLoop(n)
    \/ \E n \in NodeIds : PollSubEmpty(n)
    \/ \E n \in NodeIds : HandleBroadcastMessage(n)
    \/ \E n \in NodeIds : PollRouterEmpty(n)
    \/ \E n \in NodeIds : HandleDirectMessage(n)
    \/ Tick(MaxTime)

SpecHandshake ==
    /\ InitSpec /\ [][NextHandshake]_vars
    /\ \A n \in NodeIds :
          WF_vars(\/ PollSubEmpty(n) \/ HandleBroadcastMessage(n)
                  \/ PollRouterEmpty(n) \/ HandleDirectMessage(n))

\* envelopes waiting on the direct and on the broadcast channels
DirectInFlight == Sum([n \in NodeIds |-> Len(router_inbox[n])], NodeIds)
BroadcastInFlight == Sum([n \in NodeIds |-> Len(sub_inbox[n])], NodeIds)

\* direct envelopes of a type that node n has taken from its router socket
TakenDirect(n, type) ==
    Sum([e \in BagToSet(deliveries[n]) |->
            IF e[1] = "direct" /\ e[3] = type THEN CopiesIn(e, deliveries[n]) ELSE 0],
        BagToSet(deliveries[n]))

WaitingDirect(n, type) ==
    Cardinality({i \in 1..Len(router_inbox[n]) :
                    json_loads(router_inbox[n][i][2]).type = type})

Responses ==
    Sum([n \in NodeIds |->
            TakenDirect(n, "handshake_response")
                + WaitingDirect(n, "handshake_response")], NodeIds)

HandshakesTaken == Sum([n \in NodeIds |-> TakenDirect(n, "handshake")], NodeIds)

\* the last envelope waiting at the router socket of node s, after the step
LastDirect(s) == json_loads(router_inbox'[s][Len(router_inbox'[s])][2])

\* C30: the dispatch of a handshake sends one handshake_response, addressed
\* to the sender of the handshake, and nothing else; the dispatch of a
\* handshake_response or of a heartbeat sends nothing; there are never more
\* responses than handshakes taken, nor more handshakes than connect calls;
\* and the direct channels fall silent.
C30_HandshakeExchange ==
    /\ [][\A n \in NodeIds :
             (HandleDirectMessage(n) /\ NextDirect(n).type = "handshake") =>
                 /\ BroadcastInFlight' = BroadcastInFlight
                 /\ IF Reaches(n, NextDirect(n).sender_id)
                    THEN /\ DirectInFlight' = DirectInFlight
                         /\ LastDirect(NextDirect(n).sender_id).type
                               = "handshake_response"
                         /\ LastDirect(NextDirect(n).sender_id).sender_id = n
                         /\ LastDirect(NextDirect(n).sender_id).recipient_id
                               = NextDirect(n).sender_id
                    ELSE DirectInFlight' = DirectInFlight - 1]_vars
    /\ [][\A n \in NodeIds :
             /\ (/\ HandleDirectMessage(n)
                 /\ NextDirect(n).type = "handshake_response")
                    => /\ DirectInFlight' = DirectInFlight - 1
                       /\ BroadcastInFlight' = BroadcastInFlight
             /\ (/\ HandleBroadcastMessage(n)
                 /\ NextBroadcast(n).type = "heartbeat")
                    => /\ DirectInFlight' = DirectInFlight
                       /\ BroadcastInFlight' = BroadcastInFlight - 1]_vars
    /\ [](Responses <= HandshakesTaken /\ HandshakesTaken <= Connects)
    /\ <>[](DirectInFlight = 0)

\* C30 witness: two nodes have each taken the other's handshake and the
\* other's response, and nothing is left on the direct channels.
C30_Witness ==
    /\ \A n \in NodeIds :
          /\ TakenDirect(n, "handshake") = 1
          /\ TakenDirect(n, "handshake_response") = 1
    /\ DirectInFlight = 0

\* ------------------------------------------------------------------------
\* SpecDirect: direct sends from a dealer socket with one or more
\* connections.  connect_to_peer takes the address (here: the node that
\* listens there) and the peer id as separate arguments; the dealer socket
\* sends on one of its connections and the peer id is the first frame.
\* ------------------------------------------------------------------------
PeerIds == NodeIds \cup {"remote_node_1"}

\* connect_to_peer(address, port, peer_id) followed by send_handshake(peer_id)
ConnectToPeerAt(n, address, peer_id, dest) ==
    /\ sockets[n] = "open"
    /\ Connects < MaxConnects
    /\ dest \in dealer_connected[n] \cup {address}
    /\ sockets[dest] = "open" => Len(router_inbox[dest]) < MaxInbox
    /\ sub_connected' = [sub_connected EXCEPT ![n][address] = @ + 1]
    /\ dealer_connected' = [dealer_connected EXCEPT ![n] = @ \cup {address}]
    /\ peers' = [peers EXCEPT ![n] =
                    [p \in DOMAIN @ \cup {peer_id} |->
                        IF p = peer_id THEN now ELSE @[p]]]
    /\ active_connections' = [active_connections EXCEPT ![n] = @ \cup {peer_id}]
    /\ router_inbox' = send_direct(router_inbox, sockets[dest] = "open",
                                   n, dest, handshake_message(n, peer_id))
    /\ touched' = [touched EXCEPT ![n] =
                    [p \in DOMAIN @ \cup {peer_id} |->
                        IF p = peer_id THEN now ELSE @[p]]]
    /\ UNCHANGED <<now, MIN_NODES, send_result, records, vrfvars, lockvars, lifevars, faultvars, sockets, tasks, is_running, heartbeat_due,
                   mp_pc, message_handlers, seen_messages,
                   pending_vrf_proposals, sub_inbox, broadcast_tasks, mgrvars,
                   deliveries, handler_calls, proposed, connect_time, connect_failed>>

NextDirectSpec ==
    \/ \E n \in NodeIds : NoHeartbeatDue /\ Start(n)
    \/ \E n, address, dest \in NodeIds : \E peer_id \in PeerIds :
          /\ NoHeartbeatDue /\ sockets[address] = "open"
          /\ ConnectToPeerAt(n, address, peer_id, dest)
    \/ \E n \in NodeIds : HeartbeatLoop(n)
    \/ \E n \in NodeIds : PollSubEmpty(n)
    \/ \E n \in NodeIds : HandleBroadcastMessage(n)
    \/ \E n \in NodeIds : PollRouterEmpty(n)
    \/ \E n \in NodeIds : HandleDirectMessage(n)
    \/ Tick(MaxTime)

SpecDirect == InitSpec /\ [][NextDirectSpec]_vars

\* C31: every envelope waiting at the router socket of a node names that
\* node as its recipient, and a node invokes no handler for a direct
\* envelope whose recipient id names a different node.
C31_DirectAddressing ==
    /\ [](\A n \in NodeIds : \A i \in 1..Len(router_inbox[n]) :
             json_loads(router_inbox[n][i][2]).recipient_id = n)
    /\ [][\A n \in NodeIds :
             (HandleDirectMessage(n) /\ NextDirect(n).recipient_id # n)
                 => handler_calls'[n] = handler_calls[n]]_vars

\* ------------------------------------------------------------------------
\* SpecSend: broadcast_message and send_direct_message called in every
\* state of the sockets: before start, while open, after stop, with the
\* peer connected, never connected or stopped.
\* ------------------------------------------------------------------------
block_announcement(n) ==
    P2PMessage("block_announcement", n, "broadcast", now, [height |-> 1])

send_outcome_uncaught(failed) == IF failed THEN "raised" ELSE "returned"

\* try: ... except Exception as e: logging.error(...) in both send methods
send_outcome(failed) == "returned"

sent(n, failed) ==
    [send_result EXCEPT
        ![n] = [calls |-> @.calls + 1, outcome |-> send_outcome(failed),
                failed |-> failed, had_failure |-> @.had_failure \/ failed]]

\* broadcast_message: pub_socket is None before start and closed after stop
BroadcastMessage(n, message) ==
    /\ send_result[n].calls < MaxSends
    /\ CanPublish(n)
    /\ sub_inbox' = publish(sub_inbox, n, broadcast_frames(message))
    /\ send_result' = sent(n, sockets[n] # "open")
    /\ UNCHANGED <<now, MIN_NODES, records, vrfvars, lockvars, lifevars, faultvars,
                   sockets, tasks, is_running, heartbeat_due, mp_pc, peers,
                   active_connections, message_handlers, seen_messages,
                   pending_vrf_proposals, sub_connected, dealer_connected,
                   router_inbox, broadcast_tasks, mgrvars, histvars>>

\* send_direct_message: dealer_socket is None before start and closed after
\* stop; a peer that was never connected or has stopped gets nothing
SendDirectMessage(n, peer_id, message) ==
    /\ send_result[n].calls < MaxSends
    /\ Reaches(n, peer_id) => Len(router_inbox[peer_id]) < MaxInbox
    /\ router_inbox' = send_direct(router_inbox, Reaches(n, peer_id), n,
                                   peer_id, message)
    /\ send_result' = sent(n, ~Reaches(n, peer_id))
    /\ UNCHANGED <<now, MIN_NODES, records, vrfvars, lockvars, lifevars, faultvars,
                   sockets, tasks, is_running, heartbeat_due, mp_pc, peers,
                   active_connections, message_handlers, seen_messages,
                   pending_vrf_proposals, sub_connected, dealer_connected,
                   sub_inbox, broadcast_tasks, mgrvars, histvars>>

NextSend ==
    \/ \E n \in NodeIds : NoHeartbeatDue /\ Start(n)
    \/ \E n \in NodeIds : NoHeartbeatDue /\ stop_calls[n] = 0 /\ Stop(n)
    \/ /\ NoHeartbeatDue /\ sockets["node_a"] = "open"
       /\ sub_connected["node_b"]["node_a"] = 0
       /\ ConnectToPeer("node_b", "node_a")
    \/ \E n \in NodeIds : NoHeartbeatDue /\ BroadcastMessage(n, block_announcement(n))
    \/ \E n, peer_id \in NodeIds :
          /\ NoHeartbeatDue /\ n # peer_id
          /\ SendDirectMessage(n, peer_id, handshake_message(n, peer_id))
    \/ \E n \in NodeIds : HeartbeatLoop(n)
    \/ \E n \in NodeIds : PollSubEmpty(n)
    \/ \E n \in NodeIds : HandleBroadcastMessage(n)
    \/ \E n \in NodeIds : PollRouterEmpty(n)
    \/ \E n \in NodeIds : HandleDirectMessage(n)

SpecSend == InitSpec /\ [][NextSend]_vars

\* node n makes a send call in this step
Sends(n) == send_result'[n] # send_result[n]

\* C32: every call of broadcast_message or send_direct_message, failed or
\* not, returns to its caller and leaves the peer registries, the seen sets,
\* the pending buffers and the loops of all nodes as they were; and a
\* broadcast from open sockets reaches every open subscriber, whatever sends
\* of the node failed before.
C32_SendFailuresStayInTransport ==
    /\ [][\A n \in NodeIds :
             Sends(n) =>
                 /\ send_result'[n].outcome = "returned"
                 /\ peers' = peers /\ active_connections' = active_connections
                 /\ seen_messages' = seen_messages
                 /\ pending_vrf_proposals' = pending_vrf_proposals
                 /\ tasks' = tasks /\ is_running' = is_running]_vars
    /\ [][\A n \in NodeIds :
             (BroadcastMessage(n, block_announcement(n)) /\ sockets[n] = "open")
                 => \A m \in NodeIds :
                       sockets[m] = "open" =>
                           Len(sub_inbox'[m]) = Len(sub_inbox[m]) + sub_connected[m][n]]_vars
    /\ [](\A n \in NodeIds :
             (CanPublish(n) /\ send_result[n].calls < MaxSends) => ENABLED BroadcastMessage(n, block_announcement(n)))

\* C32 witness: a send of node_a has failed, and a later broadcast of
\* node_a, which did not fail, is waiting at node_b.
C32_Witness ==
    /\ send_result["node_a"].had_failure
    /\ ~send_result["node_a"].failed
    /\ \E i \in 1..Len(sub_inbox["node_b"]) :
          /\ json_loads(sub_inbox["node_b"][i][2]).type = "block_announcement"
          /\ json_loads(sub_inbox["node_b"][i][2]).sender_id = "node_a"

\* a node that is subscribed to no publisher: no broadcast ever arrives
NeverSubscribed(n) == \A p \in NodeIds : sub_connected[n][p] = 0

TakenOn(n, channel) ==
    Sum([e \in BagToSet(deliveries[n]) |->
            IF e[1] = channel THEN CopiesIn(e, deliveries[n]) ELSE 0],
        BagToSet(deliveries[n]))

\* C33: at a running node, a direct channel holding k envelopes comes to
\* hold fewer, and so does a broadcast channel holding k envelopes, whatever
\* arrives or does not arrive on the other channel.
C33_BothChannelsServiced ==
    \A n \in NodeIds : \A k \in 1..MaxInbox :
        /\ (Len(router_inbox[n]) = k) ~> (Len(router_inbox[n]) < k)
        /\ (Len(sub_inbox[n]) = k) ~> (Len(sub_inbox[n]) < k)

\* C33 witness: one node has dispatched a direct envelope though it is
\* subscribed to nobody, and the other has dispatched a broadcast envelope
\* though no direct envelope has arrived at it.
C33_Witness ==
    \E n, m \in NodeIds :
        /\ NeverSubscribed(n) /\ TakenOn(n, "direct") > 0
        /\ TakenOn(m, "direct") = 0 /\ router_inbox[m] = <<>>
        /\ TakenOn(m, "broadcast") > 0

\* ------------------------------------------------------------------------
\* SpecLocality: each manager starts, fails to start and stops its network,
\* and adds and removes records of other nodes, while the started
\* transports connect and run their loops.
\* ------------------------------------------------------------------------
NextLocality ==
    \/ \E n \in NodeIds : NoHeartbeatDue /\ Start(n)
    \/ \E n \in NodeIds, failure \in BindFailures :
          NoHeartbeatDue /\ StartFails(n, failure)
    \/ \E n \in NodeIds : Stop(n)
    \/ \E n \in NodeIds, node_id \in PeerIds :
          NoHeartbeatDue /\ AddNode(n, node_id)
    \/ \E n \in NodeIds, node_id \in PeerIds :
          NoHeartbeatDue /\ RemoveNode(n, node_id)
    \/ /\ NoHeartbeatDue /\ sockets["node_b"] = "open"
       /\ ConnectToPeer("node_a", "node_b")
    \/ \E n \in NodeIds : HeartbeatLoop(n)
    \/ Tick(MaxClock)

SpecLocality == Init /\ [][NextLocality]_vars

RemoteRecords(n) == {r \in DOMAIN records[n] : ~records[n][r].is_local}
LocalRecords(n) == {r \in DOMAIN records[n] : records[n][r].is_local}

\* C34: a record of a remote node never has a started transport or a loop
\* of its own; the only local record of a manager is its own node, whose
\* transport runs exactly while the node's sockets are open and its loops
\* are running; a start changes the transport of the local record only, and
\* after a stop no local record's transport is running.
C34_OnlyLocalNodesRun ==
    /\ [](\A n \in NodeIds :
            /\ DOMAIN records[n] = DOMAIN nodes[n]
            /\ LocalRecords(n) = {n}
            /\ \A r \in RemoteRecords(n) : records[n][r].transport = "none"
            /\ records[n][n].transport = "running"
                  <=> sockets[n] = "open" /\ is_running[n]
                        /\ tasks[n] = "running")
    /\ [][\A n \in NodeIds :
            /\ (Start(n) \/ \E failure \in BindFailures : StartFails(n, failure))
                  => \A r \in DOMAIN records[n] \ {n} :
                        records'[n][r] = records[n][r]
            /\ Stop(n)
                  => /\ \A r \in LocalRecords(n) :
                           records'[n][r].transport = "stopped"
                     /\ ~is_running'[n] /\ tasks'[n] # "running"
                     /\ sockets'[n] = "closed"
                     /\ \A r \in RemoteRecords(n) :
                           records'[n][r] = records[n][r]]_vars

\* a manager that holds added and test records was started and then stopped
C34_Witness ==
    \E n \in NodeIds :
        /\ records[n][n].transport = "stopped"
        /\ stop_calls[n] >= 1 /\ ~start_failed[n]
        /\ TestNodeIds \subseteq RemoteRecords(n)
        /\ NodeIds \ {n} \subseteq RemoteRecords(n)
        /\ \E p \in NodeIds \ {n} : records[p][p].transport = "running"

\* ------------------------------------------------------------------------
\* SpecConnections: two transports start and stop, connect to each other
\* and to themselves, before, while and after their sockets are open,
\* dispatch what arrives and sweep, until the clock reaches MaxClock.
\* ------------------------------------------------------------------------
NextConnections ==
    \/ \E n \in NodeIds : NoHeartbeatDue /\ Start(n)
    \/ \E n \in NodeIds : NoHeartbeatDue /\ stop_calls[n] = 0 /\ Stop(n)
    \/ \E n, p \in NodeIds :
          NoHeartbeatDue /\ sockets[p] = "open" /\ ConnectToPeer(n, p)
    \/ \E n, p \in NodeIds : NoHeartbeatDue /\ n # p /\ ConnectToPeerFails(n, p)
    \/ \E n \in NodeIds : HeartbeatLoop(n)
    \/ \E n \in NodeIds : PollSubEmpty(n)
    \/ \E n \in NodeIds : HandleBroadcastMessage(n)
    \/ \E n \in NodeIds : PollRouterEmpty(n)
    \/ \E n \in NodeIds : HandleDirectMessage(n)
    \/ Tick(MaxClock)

SpecConnections == InitSpec /\ [][NextConnections]_vars

\* C35: the active-connections set of a transport is the set of ids with a
\* record in its registry, in every state; a connect that works puts its
\* peer in both and a connect that fails changes neither.
C35_RegistryAndConnectionsAgree ==
    /\ [](\A n \in NodeIds : active_connections[n] = DOMAIN peers[n])
    /\ [][\A n, p \in NodeIds :
            /\ ConnectToPeer(n, p)
                  => p \in active_connections'[n] /\ p \in DOMAIN peers'[n]
            /\ ConnectToPeerFails(n, p)
                  => /\ active_connections'[n] = active_connections[n]
                     /\ peers'[n] = peers[n]]_vars

\* a transport has swept a peer it had connected to, holds another, and had
\* a connect fail; an envelope of the swept peer was dispatched on the way
C35_Witness ==
    \E n \in NodeIds : \E p \in NodeIds :
        /\ p \in DOMAIN touched[n] /\ p \notin DOMAIN peers[n]
        /\ active_connections[n] # {}
        /\ connect_failed[n] # {}
        /\ \E d \in DOMAIN deliveries[n] : d[2] = p

\* C36: a transport whose dispatcher can take an envelope has all five
\* handlers registered, and a broadcast envelope of one of the five types
\* whose id the dispatcher records as seen has its handler invoked in the
\* same dispatch.
C36_HandlersBeforeFirstEnvelope ==
    /\ [](\A n \in NodeIds :
            tasks[n] # "none" => HandlerTypes \subseteq message_handlers[n])
    /\ [][\A n \in NodeIds :
            (/\ HandleBroadcastMessage(n)
             /\ seen_messages'[n] # seen_messages[n]
             /\ has(NextBroadcast(n), {"type"})
             /\ NextBroadcast(n).type \in HandlerTypes)
                => /\ seen_messages'[n] \ seen_messages[n]
                         = {NextBroadcast(n).message_id}
                   /\ handler_calls'[n] =
                         AddToBag(handler_calls[n],
                                  <<"broadcast", NextBroadcast(n).type,
                                    NextBroadcast(n).message_id>>)]_vars

\* the first envelope a dispatcher took was a broadcast one, and its
\* handler ran: everything the node has seen was handled, and it has
\* handled a heartbeat and a distance proposal
C36_Witness ==
    \E n \in NodeIds :
        /\ \E c \in DOMAIN handler_calls[n] :
              c[1] = "broadcast" /\ c[2] = "heartbeat" /\ c[3] \in seen_messages[n]
        /\ \E c \in DOMAIN handler_calls[n] :
              /\ c[1] = "broadcast" /\ c[2] = "vrf_distance_proposal"
              /\ c[3] \in seen_messages[n]

\* ------------------------------------------------------------------------
\* SpecPeers: node_a starts and is given bootstrap addresses, one more than
\* MAX_PEERS, at which no modelled node listens.
\* ------------------------------------------------------------------------
MAX_PEERS == 8

BootstrapIds == {"peer_1", "peer_2", "peer_3", "peer_4", "peer_5", "peer_6",
                 "peer_7", "peer_8", "peer_9"}

\* one iteration of discover_peers: connect_to_peer to an address of no
\* modelled node (the two connects return without a listener, the record is
\* made, and the handshake waits on the dealer socket)
ConnectToBootstrapPeer(n, peer_id) ==
    /\ sockets[n] = "open"
    /\ peer_id \in BootstrapIds \ DOMAIN peers[n]
    /\ peers' = [peers EXCEPT ![n] =
                    [p \in DOMAIN @ \cup {peer_id} |->
                        IF p = peer_id THEN now ELSE @[p]]]
    /\ active_connections' = [active_connections EXCEPT ![n] = @ \cup {peer_id}]
    /\ touched' = [touched EXCEPT ![n] =
                    [p \in DOMAIN @ \cup {peer_id} |->
                        IF p = peer_id THEN now ELSE @[p]]]
    /\ UNCHANGED <<now, MIN_NODES, send_result, records, vrfvars, lockvars,
                   lifevars, faultvars, sockets, tasks, is_running,
                   heartbeat_due, mp_pc, message_handlers, seen_messages,
                   pending_vrf_proposals, sub_connected, dealer_connected,
                   sub_inbox, router_inbox, broadcast_tasks, mgrvars,
                   deliveries, handler_calls, connect_time, connect_failed,
                   proposed>>

NextPeers ==
    \/ NoHeartbeatDue /\ Start("node_a")
    \/ \E peer_id \in BootstrapIds :
          NoHeartbeatDue /\ ConnectToBootstrapPeer("node_a", peer_id)
    \/ HeartbeatLoop("node_a")
    \/ NoHeartbeatDue /\ stop_calls["node_a"] = 0 /\ Stop("node_a")

SpecPeers == InitSpec /\ [][NextPeers]_vars

\* C37: a transport holds at most MAX_PEERS peer records and at most
\* MAX_PEERS active connections, in every state.
C37_PeerCountCapped ==
    \A n \in NodeIds :
        /\ Cardinality(DOMAIN peers[n]) <= MAX_PEERS
        /\ Cardinality(active_connections[n]) <= MAX_PEERS

\* ------------------------------------------------------------------------
\* SpecLocksFair: the callers of SpecLocks under the scheduling of asyncio.
\* A caller inside a selection goes on to its return (weak fairness); the
\* waiters of an asyncio.Lock are woken in the order of their arrival, so a
\* waiter is not passed over for ever (strong fairness of its entry).  A
\* distance selection is called only while a proposal is left for it.
\* ------------------------------------------------------------------------
InFlight(kind) == Inside(kind) \cup Waiting(kind)

NextLocksFair ==
    \/ NoHeartbeatDue /\ Start("node_a")
    \/ NoHeartbeatDue /\ ConnectToPeer("node_a", "node_b")
    \/ HeartbeatLoop("node_a")
    \/ NoHeartbeatDue /\ AddNode("node_a", "node_b")
    \/ \E c \in Callers :
          /\ proposals_made + Cardinality(InFlight("distance")) < MaxProposals
          /\ CallSelect(c, "distance")
    \/ \E c \in Callers : CallSelect(c, "mining")
    \/ \E c \in Callers : EnterSelect("node_a", c)
    \/ \E c \in Callers, h \in PrevHashes :
          LeaveSelect("node_a", c, proposals_made + 1, h, 0)
    \/ BroadcastDistanceProposal("node_a")

SpecLocksFair ==
    /\ Init /\ [][NextLocksFair]_vars
    /\ \A c \in Callers :
          /\ SF_vars(EnterSelect("node_a", c))
          /\ WF_vars(\E h \in PrevHashes :
                        LeaveSelect("node_a", c, proposals_made + 1, h, 0))

EarlyReturn(c) ==
    /\ callers[c].pc = "inside" /\ callers[c].kind = "distance"
    /\ insufficient(callers[c].active_nodes)

\* C38: the distance lock is held by a caller exactly while that caller is
\* inside the selection; every return, the early one for too few active
\* nodes included, leaves the lock free; and every caller that waits for
\* the lock comes to hold it and every caller that holds it returns.
C38_RoundLockReleased ==
    /\ [](\A c \in Callers :
            consensus_locks["node_a"]["distance_consensus_lock"] = c
                <=> c \in Inside("distance"))
    /\ [][\A c \in Callers :
            (c \in Inside("distance") /\ callers'[c].pc = "idle")
                => consensus_locks'["node_a"]["distance_consensus_lock"] = "free"
       ]_vars
    /\ \A c \in Callers :
          /\ (c \in Waiting("distance")) ~> (c \in Inside("distance"))
          /\ (c \in Inside("distance")) ~> (callers[c].pc = "idle")

\* one caller is about to return early for too few active nodes while the
\* other one waits for the lock
C38_Witness ==
    \E c, d \in Callers :
        /\ EarlyReturn(c)
        /\ d \in Waiting("distance")

\* the envelope at the head of a channel cannot be decoded or lacks its
\* sender id, its message id or its type
DroppedHead(inbox) ==
    /\ inbox # <<>>
    /\ \/ Len(Head(inbox)) # 2
       \/ ~IsJson(Head(inbox)[2])
       \/ ~has(json_loads(Head(inbox)[2]), EnvelopeKeys)

\* C39: a dispatch of an envelope that cannot be decoded or lacks its sender
\* id, message id or type leaves the seen set, the peer registry with its
\* last_seen values and the pending-proposal buffer of the receiver as they
\* were.
C39_DroppedEnvelopeLeavesNoTrace ==
    [][\A n \in NodeIds :
          (\/ HandleBroadcastMessage(n) /\ DroppedHead(sub_inbox[n])
           \/ HandleDirectMessage(n) /\ DroppedHead(router_inbox[n]))
              => /\ seen_messages'[n] = seen_messages[n]
                 /\ peers'[n] = peers[n]
                 /\ pending_vrf_proposals'[n] = pending_vrf_proposals[n]]_vars

\* the payloads the proposal handlers of n were given
HandledPayloads(n) ==
    {pending_vrf_proposals[n][i][2] : i \in 1..Len(pending_vrf_proposals[n])}

\* C40: a proposal envelope of another node that waits for the dispatcher
\* of n and whose id n has already seen, so that the seen-id check will
\* discard it, carries a payload that a handler of n was given before.
C40_DedupOnlyDuplicates ==
    \A n \in NodeIds : \A i \in 1..Len(sub_inbox[n]) :
        LET message_data == json_loads(sub_inbox[n][i][2])
        IN  (/\ message_data.type \in ProposalTypes
             /\ message_data.sender_id # n
             /\ message_data.message_id \in seen_messages[n])
                => message_data.data \in HandledPayloads(n)


====
